---- MODULE Spec2Model ----
(***************************************************************************)
(* Attribution engine (src/src/l2_engine/attribution) and orchestration    *)
(* layer (src/src/l1_orchestration) of fin-agent.                          *)
(*                                                                         *)
(* Every calculator is a synchronous method of an object that holds only   *)
(* its configuration.  The state of the model is the configuration of the  *)
(* instances (config), the call a client makes on them with its arguments  *)
(* (call), the value the call returned or the fact that it threw (result), *)
(* and the position of the call (pc).  Under Spec one action models one    *)
(* public method of a calculator, from its first statement to its return;  *)
(* the client may repeat the call once on the same instance with the same  *)
(* arguments (pc: "ready", "returned", "returned again").                  *)
(*                                                                         *)
(* Dispatcher.handleRequest is asynchronous.  Under OrchestrationSpec it is*)
(* one action per stretch of code between two awaits (pc: "ready",         *)
(* "awaiting prices", "awaiting search", "awaiting generate", "returned"); *)
(* frame holds the locals that live across an await and effectLog the calls*)
(* the handler has made on the outside world (market data, search, language*)
(* model), in order.  The static methods of Guardrails are actions of their*)
(* own.                                                                    *)
(*                                                                         *)
(* InMemoryQueue (infrastructure layer) is modelled under QueueSpec: queue,*)
(* processing and handler are the fields of the instance, handlerCalls the *)
(* calls of the handler in order with the state of the promise each one    *)
(* returned, suspended the calls of processNext that wait at their await,  *)
(* and adds the calls of add() in order.  add(), process() and the code    *)
(* after an await each run to their end as one action; a promise settles in*)
(* an action of its own.  QueueLiveSpec adds weak fairness of the settling *)
(* of promises and of the continuation after an await.                     *)
(*                                                                         *)
(* Numbers. The code computes in IEEE doubles; the model computes in      *)
(* exact rationals <<n, d>> (d > 0, lowest terms), extended with the three *)
(* non-finite doubles: <<1, 0>> = +Infinity, <<-1, 0>> = -Infinity and     *)
(* <<0, 0>> = NaN.  Rounding error of doubles (about 1e-16 on the inputs   *)
(* used here) is therefore not modelled; every tolerance the claims state  *)
(* is 1e-6 or coarser.                                                     *)
(*                                                                         *)
(* Text.  A string of the program is the sequence of its characters: an    *)
(* ASCII character is the one-character string, a line feed is "LF" and any*)
(* other character is named by its code point ("U+98CE").                  *)
(***************************************************************************)
EXTENDS Integers, Sequences, FiniteSets, TLC

VARIABLES config, call, result, pc, effectLog, frame,
          queue, processing, handler, handlerCalls, suspended, adds

\* The fields of the InMemoryQueue instance and what surrounds it.
queueVars == <<queue, processing, handler, handlerCalls, suspended, adds>>

vars == <<config, call, result, pc, effectLog, frame, queueVars>>

(***************************************************************************)
(* Rational arithmetic                                                     *)
(***************************************************************************)
Abs(x) == IF x < 0 THEN -x ELSE x

Sgn(x) == IF x < 0 THEN -1 ELSE IF x > 0 THEN 1 ELSE 0

RECURSIVE GCD(_, _)
GCD(a, b) == IF b = 0 THEN a ELSE GCD(b, a % b)

Norm(n, d) ==
  IF d = 0 THEN <<Sgn(n), 0>>
  ELSE LET g == GCD(Abs(n), Abs(d))
           s == IF d < 0 THEN -1 ELSE 1
       IN  <<s * (n \div g), s * (d \div g)>>

Q(n, d) == Norm(n, d)

Zero == <<0, 1>>
One == <<1, 1>>
NaN == <<0, 0>>
PosInf == <<1, 0>>
NegInf == <<-1, 0>>

IsNum(a) == a \in Int \X Int
IsFinite(a) == a[2] # 0
IsNaN(a) == a = NaN

RNeg(a) == <<-a[1], a[2]>>

RAdd(a, b) ==
  IF IsFinite(a) /\ IsFinite(b)
  THEN LET g == GCD(a[2], b[2])
       IN  Norm(a[1] * (b[2] \div g) + b[1] * (a[2] \div g), (a[2] \div g) * b[2])
  ELSE IF IsNaN(a) \/ IsNaN(b) THEN NaN
  ELSE IF ~IsFinite(a) /\ ~IsFinite(b) THEN (IF a = b THEN a ELSE NaN)
  ELSE IF IsFinite(a) THEN b ELSE a

RSub(a, b) == RAdd(a, RNeg(b))

RMul(a, b) ==
  IF IsFinite(a) /\ IsFinite(b)
  THEN LET g1 == GCD(Abs(a[1]), b[2])
           g2 == GCD(Abs(b[1]), a[2])
       IN  Norm((a[1] \div g1) * (b[1] \div g2), (a[2] \div g2) * (b[2] \div g1))
  ELSE IF IsNaN(a) \/ IsNaN(b) \/ a[1] = 0 \/ b[1] = 0 THEN NaN
  ELSE <<Sgn(a[1]) * Sgn(b[1]), 0>>

\* JavaScript division: x/0 is +-Infinity, 0/0 is NaN (the sign of a zero is
\* not modelled).
RDiv(a, b) ==
  IF IsNaN(a) \/ IsNaN(b) THEN NaN
  ELSE IF ~IsFinite(b) THEN (IF IsFinite(a) THEN Zero ELSE NaN)
  ELSE IF ~IsFinite(a) THEN <<a[1] * (IF b[1] < 0 THEN -1 ELSE 1), 0>>
  ELSE IF b[1] = 0 THEN <<Sgn(a[1]), 0>>
  ELSE RMul(a, Norm(b[2], b[1]))

RAbs(a) == <<Abs(a[1]), a[2]>>

\* a < b and a <= b on doubles: false as soon as one side is NaN.
RLt(a, b) ==
  IF IsNaN(a) \/ IsNaN(b) THEN FALSE
  ELSE IF IsFinite(a) /\ IsFinite(b) THEN a[1] * b[2] < b[1] * a[2]
  ELSE IF ~IsFinite(a) /\ ~IsFinite(b) THEN a[1] < b[1]
  ELSE IF IsFinite(a) THEN b[1] > 0 ELSE a[1] < 0

RLe(a, b) == ~IsNaN(a) /\ ~IsNaN(b) /\ ~RLt(b, a)

\* a !== b on doubles.
RNe(a, b) == IsNaN(a) \/ IsNaN(b) \/ a # b

\* Math.floor of a finite double.
RFloor(a) == a[1] \div a[2]

\* |a - b| <= 1/tolDen, without forming |a - b| * tolDen.
Within(a, b, tolDen) ==
  LET diff == RSub(a, b)
  IN  IsFinite(diff) /\ Abs(diff[1]) <= diff[2] \div tolDen

RECURSIVE RSum(_)
RSum(s) == IF s = <<>> THEN Zero ELSE RAdd(RSum(SubSeq(s, 1, Len(s) - 1)), s[Len(s)])

Map(F(_), s) == [i \in 1..Len(s) |-> F(s[i])]

SeqsUpTo(S, n) == UNION {[1..k -> S] : k \in 0..n}

\* The value of an optional numeric property that was never set (a number is
\* a pair, so the empty tuple is none).
Undefined == <<>>


(***************************************************************************)
(* Data model (src/src/types/attribution.ts)                               *)
(*                                                                         *)
(* A position is a record [ticker, weight, return, contribution, sector,   *)
(* portfolioWeight]; the optional sector is "" and the optional            *)
(* portfolioWeight is Undefined when the caller did not set them.  A       *)
(* benchmark is [weights, returns, totalReturn]: weights is the Map        *)
(* ticker -> weight as the sequence of its entries in insertion order,     *)
(* returns is the Map ticker -> return as a function on the tickers that   *)
(* have an entry.                                                          *)
(***************************************************************************)
Position(t, s, w, r, c, pw) ==
  [ticker |-> t, sector |-> s, weight |-> w, return |-> r,
   contribution |-> c, portfolioWeight |-> pw]

\* map.get(key) || 0
GetOrZero(map, key) ==
  IF key \in DOMAIN map /\ ~IsNaN(map[key]) THEN map[key] ELSE Zero

\* pos.portfolioWeight || pos.weight
WeightOf(pos) ==
  IF pos.portfolioWeight = Undefined \/ pos.portfolioWeight = Zero
     \/ pos.portfolioWeight = NaN
  THEN pos.weight
  ELSE pos.portfolioWeight

\* Mutant of SectorOf: the 'Unknown' fallback is forgotten.
SectorOfNoFallback(pos) == pos.sector

\* pos.sector || 'Unknown'
SectorOf(pos) == IF pos.sector = "" THEN "Unknown" ELSE pos.sector

\* String.prototype.includes
Includes(s, sub) ==
  \E i \in 1..(Len(s) - Len(sub) + 1) : SubSeq(s, i, i + Len(sub) - 1) = sub

inferSector(ticker) ==
  IF Includes(ticker, "0700") \/ Includes(ticker, "TECH") THEN "Technology"
  ELSE IF Includes(ticker, "BABA") \/ Includes(ticker, "AMZN") THEN "Consumer Discretionary"
  ELSE IF Includes(ticker, "AAPL") \/ Includes(ticker, "MSFT") THEN "Technology"
  ELSE IF Includes(ticker, "JPM") \/ Includes(ticker, "BAC") THEN "Financials"
  ELSE IF Includes(ticker, "JNJ") \/ Includes(ticker, "PFE") THEN "Health Care"
  ELSE IF Includes(ticker, "XOM") \/ Includes(ticker, "CVX") THEN "Energy"
  ELSE "Unknown"

createEmptySectorAttribution(sector) ==
  [sector |-> sector, portfolioWeight |-> Zero, benchmarkWeight |-> Zero,
   portfolioReturn |-> Zero, benchmarkReturn |-> Zero, allocationEffect |-> Zero,
   selectionEffect |-> Zero, interactionEffect |-> Zero, totalEffect |-> Zero]

(***************************************************************************)
(* The sector Map of one aggregation, as the sequence of its values in     *)
(* insertion order.                                                        *)
(***************************************************************************)
SectorMapHas(sectorMap, sector) ==
  \E i \in 1..Len(sectorMap) : sectorMap[i].sector = sector

\* if (!sectorMap.has(sector)) sectorMap.set(sector, createEmpty...(sector))
EnsureSector(sectorMap, sector) ==
  IF SectorMapHas(sectorMap, sector) THEN sectorMap
  ELSE Append(sectorMap, createEmptySectorAttribution(sector))

\* sectorMap.get(sector): the entry under the key
SectorIndex(sectorMap, sector) ==
  CHOOSE i \in 1..Len(sectorMap) :
    /\ sectorMap[i].sector = sector
    /\ \A j \in 1..(i - 1) : sectorMap[j].sector # sector

AddPortfolio(sectorMap, sector, weight, contribution) ==
  LET m == EnsureSector(sectorMap, sector)
      i == SectorIndex(m, sector)
  IN  [m EXCEPT ![i].portfolioWeight = RAdd(@, weight),
                ![i].portfolioReturn = RAdd(@, contribution)]

\* Mutant of AddBenchmark: the constituent's return is accumulated unweighted.
AddBenchmarkUnweighted(sectorMap, sector, weight, return) ==
  LET m == EnsureSector(sectorMap, sector)
      i == SectorIndex(m, sector)
  IN  [m EXCEPT ![i].benchmarkWeight = RAdd(@, weight),
                ![i].benchmarkReturn = RAdd(@, return)]

AddBenchmark(sectorMap, sector, weight, return) ==
  LET m == EnsureSector(sectorMap, sector)
      i == SectorIndex(m, sector)
  IN  [m EXCEPT ![i].benchmarkWeight = RAdd(@, weight),
                ![i].benchmarkReturn = RAdd(@, RMul(weight, return))]

\* The first loop of calculateSectorAttribution.
RECURSIVE BrinsonPortfolioPass(_, _)
BrinsonPortfolioPass(sectorMap, positions) ==
  IF positions = <<>> THEN sectorMap
  ELSE LET pos == Head(positions)
       IN  BrinsonPortfolioPass(
             AddPortfolio(sectorMap, SectorOf(pos), WeightOf(pos), pos.contribution),
             Tail(positions))

\* The second loop of calculateSectorAttribution.
RECURSIVE BrinsonBenchmarkPass(_, _, _)
BrinsonBenchmarkPass(sectorMap, entries, returns) ==
  IF entries = <<>> THEN sectorMap
  ELSE LET e == Head(entries)
       IN  BrinsonBenchmarkPass(
             AddBenchmark(sectorMap, inferSector(e.ticker), e.weight,
                          GetOrZero(returns, e.ticker)),
             Tail(entries), returns)

\* Mutant of SectorEffects: the aggregated contributions are used as if they
\* were rates of return (no division by the sector weight).
SectorEffectsNoRates(sectorData) ==
  LET wp == sectorData.portfolioWeight
      wb == sectorData.benchmarkWeight
      Rp == sectorData.portfolioReturn
      Rb == sectorData.benchmarkReturn
      alloc == RMul(RSub(wp, wb), Rb)
      sel == RMul(wb, RSub(Rp, Rb))
      inter == RMul(RSub(wp, wb), RSub(Rp, Rb))
  IN  [sectorData EXCEPT !.allocationEffect = alloc,
                         !.selectionEffect = sel,
                         !.interactionEffect = inter,
                         !.totalEffect = RAdd(RAdd(alloc, sel), inter)]

\* The third loop of calculateSectorAttribution, for one bucket.
SectorEffects(sectorData) ==
  LET wp == sectorData.portfolioWeight
      wb == sectorData.benchmarkWeight
      Rp == IF RNe(wp, Zero) THEN RDiv(sectorData.portfolioReturn, wp) ELSE Zero
      Rb == IF RNe(wb, Zero) THEN RDiv(sectorData.benchmarkReturn, wb) ELSE Zero
      alloc == RMul(RSub(wp, wb), Rb)
      sel == RMul(wb, RSub(Rp, Rb))
      inter == RMul(RSub(wp, wb), RSub(Rp, Rb))
  IN  [sectorData EXCEPT !.allocationEffect = alloc,
                         !.selectionEffect = sel,
                         !.interactionEffect = inter,
                         !.totalEffect = RAdd(RAdd(alloc, sel), inter)]

calculateSectorAttribution(positions, benchmark) ==
  LET afterPortfolio == BrinsonPortfolioPass(<<>>, positions)
      afterBenchmark ==
        BrinsonBenchmarkPass(afterPortfolio, benchmark.weights, benchmark.returns)
  IN  Map(SectorEffects, afterBenchmark)

calculatePortfolioReturn(positions) ==
  RSum([i \in 1..Len(positions) |-> positions[i].contribution])

\* Mutant of calculateActiveReturnUtil: the operands are swapped.
calculateActiveReturnSwapped(portfolioReturn, benchmarkReturn) ==
  RSub(benchmarkReturn, portfolioReturn)

calculateActiveReturnUtil(portfolioReturn, benchmarkReturn) ==
  RSub(portfolioReturn, benchmarkReturn)

calculateAllocationEffect(sectorAttribution) ==
  RSum([i \in 1..Len(sectorAttribution) |-> sectorAttribution[i].allocationEffect])

calculateSelectionEffect(sectorAttribution) ==
  RSum([i \in 1..Len(sectorAttribution) |-> sectorAttribution[i].selectionEffect])

calculateInteractionEffect(sectorAttribution) ==
  RSum([i \in 1..Len(sectorAttribution) |-> sectorAttribution[i].interactionEffect])

\* calculateAttributionQuality: the residual it reports.  Its consistency
\* score takes ss.mean of the buckets' |totalEffect|, and simple-statistics
\* throws on an empty list, so the whole call throws when no bucket exists.
QualityThrows(sectorAttribution) == sectorAttribution = <<>>

\* 1 - |effect - sum over the buckets| / |effect|, and 1 for an effect of 0.
EffectAccuracy(effect, sectorSum) ==
  IF RNe(effect, Zero)
  THEN RSub(One, RDiv(RAbs(RSub(effect, sectorSum)), RAbs(effect)))
  ELSE One

calculateAttributionQuality(activeReturn, alloc, sel, inter, sectorAttribution) ==
  LET totalExplained == RAdd(RAdd(alloc, sel), inter)
  IN  [totalResidual |-> RSub(activeReturn, totalExplained),
       accuracy |->
         RDiv(RAdd(RAdd(EffectAccuracy(alloc, calculateAllocationEffect(sectorAttribution)),
                        EffectAccuracy(sel, calculateSelectionEffect(sectorAttribution))),
                   EffectAccuracy(inter, calculateInteractionEffect(sectorAttribution))),
              Q(3, 1)),
       completeness |->
         IF RNe(activeReturn, Zero)
         THEN RSub(One, RDiv(RAbs(RSub(activeReturn, totalExplained)),
                             RAbs(activeReturn)))
         ELSE One,
       explanatoryPower |->
         IF RNe(activeReturn, Zero) THEN RAbs(RDiv(totalExplained, activeReturn))
         ELSE One]

\* The sum of the values of a Map.
RECURSIVE SumOfValues(_)
SumOfValues(map) ==
  IF DOMAIN map = {} THEN Zero
  ELSE LET key == CHOOSE k \in DOMAIN map : TRUE
       IN  RAdd(map[key], SumOfValues([k \in DOMAIN map \ {key} |-> map[k]]))

extractActiveReturns(positions, benchmark) ==
  [i \in 1..Len(positions) |->
     RSub(positions[i].return, GetOrZero(benchmark.returns, positions[i].ticker))]

calculateBattingAverageUtil(activeReturns) ==
  IF Len(activeReturns) = 0 THEN Zero
  ELSE Q(Cardinality({i \in 1..Len(activeReturns) : RLt(Zero, activeReturns[i])}),
         Len(activeReturns))

\* benchmarkReturn || 0.0001 in the beta of one position
calculatePortfolioBeta(positions, benchmark) ==
  RSum([i \in 1..Len(positions) |->
          RMul(WeightOf(positions[i]),
               RDiv(positions[i].return,
                    IF GetOrZero(benchmark.returns, positions[i].ticker) = Zero
                    THEN Q(1, 10000)
                    ELSE GetOrZero(benchmark.returns, positions[i].ticker)))])

riskFreeRate == Q(1, 50)

calculateTreynorRatio(portfolioReturn, positions, benchmark) ==
  IF RNe(calculatePortfolioBeta(positions, benchmark), Zero)
  THEN RDiv(RSub(portfolioReturn, riskFreeRate),
            calculatePortfolioBeta(positions, benchmark))
  ELSE Zero

calculateJensenAlpha(portfolioReturn, benchmarkReturn, positions, benchmark) ==
  RSub(portfolioReturn,
       RAdd(riskFreeRate,
            RMul(calculatePortfolioBeta(positions, benchmark),
                 RSub(benchmarkReturn, riskFreeRate))))

\* calculateCaptureRatios: the value of both upsideCapture and downsideCapture.
CaptureRatio(positions, benchmark) ==
  LET Ratio(portfolioReturn, benchmarkReturn) ==
        IF RNe(benchmarkReturn, Zero) THEN RDiv(portfolioReturn, benchmarkReturn)
        ELSE Zero
  IN  Ratio(RDiv(RSum([i \in 1..Len(positions) |-> positions[i].return]),
                 Q(Len(positions), 1)),
            RDiv(SumOfValues(benchmark.returns),
                 Q(Cardinality(DOMAIN benchmark.returns), 1)))

Threw(message) == [status |-> "threw", error |-> message]

calculateSinglePeriodAttribution(positions, benchmark) ==
  LET portfolioReturn == calculatePortfolioReturn(positions)
      benchmarkReturn == benchmark.totalReturn
      activeReturn == calculateActiveReturnUtil(portfolioReturn, benchmarkReturn)
      sectorAttribution == calculateSectorAttribution(positions, benchmark)
      allocationEffect == calculateAllocationEffect(sectorAttribution)
      selectionEffect == calculateSelectionEffect(sectorAttribution)
      interactionEffect == calculateInteractionEffect(sectorAttribution)
  IN  IF QualityThrows(sectorAttribution)
      THEN Threw("mean requires at least one data point")
      ELSE [status |-> "ok",
            period |-> [portfolioReturn |-> portfolioReturn,
                        benchmarkReturn |-> benchmarkReturn],
            portfolioReturn |-> portfolioReturn,
            benchmarkReturn |-> benchmarkReturn,
            activeReturn |-> activeReturn,
            allocationEffect |-> allocationEffect,
            selectionEffect |-> selectionEffect,
            interactionEffect |-> interactionEffect,
            sectorAttribution |-> sectorAttribution,
            battingAverage |->
              calculateBattingAverageUtil(extractActiveReturns(positions, benchmark)),
            upsideCapture |-> CaptureRatio(positions, benchmark),
            downsideCapture |-> CaptureRatio(positions, benchmark),
            treynorRatio |-> calculateTreynorRatio(portfolioReturn, positions, benchmark),
            jensenAlpha |->
              calculateJensenAlpha(portfolioReturn, benchmarkReturn, positions,
                                   benchmark),
            attributionQuality |->
              calculateAttributionQuality(activeReturn, allocationEffect,
                                          selectionEffect, interactionEffect,
                                          sectorAttribution)]

(***************************************************************************)
(* aggregateBySector of base_attribution.ts: the same grouping, keyed by   *)
(* the caller's sector lookup for both sides, effects left at zero.        *)
(***************************************************************************)
\* sectors.get(ticker) || 'Unknown'
LookupSector(sectors, ticker) ==
  IF ticker \in DOMAIN sectors /\ sectors[ticker] # "" THEN sectors[ticker]
  ELSE "Unknown"

RECURSIVE AggregatePortfolioPass(_, _, _)
AggregatePortfolioPass(sectorMap, positions, sectors) ==
  IF positions = <<>> THEN sectorMap
  ELSE LET pos == Head(positions)
       IN  AggregatePortfolioPass(
             AddPortfolio(sectorMap, LookupSector(sectors, pos.ticker),
                          pos.weight, pos.contribution),
             Tail(positions), sectors)

RECURSIVE AggregateBenchmarkPass(_, _, _, _)
AggregateBenchmarkPass(sectorMap, entries, returns, sectors) ==
  IF entries = <<>> THEN sectorMap
  ELSE LET e == Head(entries)
       IN  AggregateBenchmarkPass(
             AddBenchmark(sectorMap, LookupSector(sectors, e.ticker), e.weight,
                          GetOrZero(returns, e.ticker)),
             Tail(entries), returns, sectors)

aggregateBySector(positions, benchmarkData, sectors) ==
  AggregateBenchmarkPass(AggregatePortfolioPass(<<>>, positions, sectors),
                         benchmarkData.weights, benchmarkData.returns, sectors)


(***************************************************************************)
(* RiskAttributionCalculator (risk_calculator.ts) and the statistics of    *)
(* base_attribution.ts it uses.                                            *)
(*                                                                         *)
(* A Map ticker -> weight is the sequence of its entries in insertion      *)
(* order; the Map ticker -> return series is the sequence of its entries   *)
(* [ticker, series].  A matrix is the sequence of its rows.                *)
(***************************************************************************)
RECURSIVE ISqrtBetween(_, _, _)
ISqrtBetween(n, lo, hi) ==
  IF lo >= hi THEN lo
  ELSE LET mid == (lo + hi + 1) \div 2
       IN  IF mid * mid <= n THEN ISqrtBetween(n, mid, hi)
           ELSE ISqrtBetween(n, lo, mid - 1)

ISqrt(n) == ISqrtBetween(n, 0, IF n < 40000 THEN n ELSE 40000)

\* Math.sqrt: exact on the square of a rational, which is what every variance
\* of the return series used here is (see ReturnSeries); NaN below zero.
RSqrt(a) ==
  IF IsNaN(a) \/ a = NegInf THEN NaN
  ELSE IF a = PosInf THEN PosInf
  ELSE IF a[1] < 0 THEN NaN
  ELSE <<ISqrt(a[1]), ISqrt(a[2])>>

\* Math.max(0, x)
RMaxZero(a) == IF IsNaN(a) THEN NaN ELSE IF RLt(a, Zero) THEN Zero ELSE a

\* Array.prototype.sort((a, b) => a - b) on finite numbers
RECURSIVE SortInsert(_, _)
SortInsert(sorted, x) ==
  IF sorted = <<>> THEN <<x>>
  ELSE IF RLt(x, Head(sorted)) THEN <<x>> \o sorted
  ELSE <<Head(sorted)>> \o SortInsert(Tail(sorted), x)

RECURSIVE SortAscending(_)
SortAscending(s) ==
  IF s = <<>> THEN <<>>
  ELSE SortInsert(SortAscending(SubSeq(s, 1, Len(s) - 1)), s[Len(s)])

SeriesEntry(t, s) == [ticker |-> t, series |-> s]

\* returns.get(ticker) || []
SeriesOf(returns, ticker) ==
  IF \E i \in 1..Len(returns) : returns[i].ticker = ticker
  THEN returns[CHOOSE i \in 1..Len(returns) : returns[i].ticker = ticker].series
  ELSE <<>>

\* weights.get(ticker) || 0
WeightIn(weights, ticker) ==
  IF \E i \in 1..Len(weights) : weights[i].ticker = ticker
  THEN LET w == weights[CHOOSE i \in 1..Len(weights) : weights[i].ticker = ticker].weight
       IN  IF IsNaN(w) THEN Zero ELSE w
  ELSE Zero

\* map.set(ticker, weight): a new key goes last, a known key keeps its place
MapSet(weights, ticker, weight) ==
  IF \E i \in 1..Len(weights) : weights[i].ticker = ticker
  THEN [i \in 1..Len(weights) |->
          IF weights[i].ticker = ticker
          THEN [ticker |-> ticker, weight |-> weight] ELSE weights[i]]
  ELSE Append(weights, [ticker |-> ticker, weight |-> weight])

\* The Map of weights calculateAttribution builds from the positions.
RECURSIVE PositionWeights(_)
PositionWeights(positions) ==
  IF positions = <<>> THEN <<>>
  ELSE LET last == positions[Len(positions)]
       IN  MapSet(PositionWeights(SubSeq(positions, 1, Len(positions) - 1)),
                  last.ticker, last.weight)

calculateCovariance(x, y) ==
  IF Len(x) # Len(y) \/ Len(x) = 0 THEN Zero
  ELSE LET n == Len(x)
           meanX == RDiv(RSum(x), Q(n, 1))
           meanY == RDiv(RSum(y), Q(n, 1))
           covariance ==
             RSum([i \in 1..n |-> RMul(RSub(x[i], meanX), RSub(y[i], meanY))])
       IN  RDiv(covariance, Q(n - 1, 1))

calculateCovarianceMatrix(returns) ==
  [i \in 1..Len(returns) |->
     [j \in 1..Len(returns) |->
        calculateCovariance(returns[i].series, returns[j].series)]]

\* calculatePortfolioVolatility multiplies the 1 x n weight row, the p x p
\* covariance matrix and the n x 1 weight column with ml-matrix, whose mmul
\* reads the right operand row by row without a dimension check: a missing
\* row is a TypeError, and an empty covariance matrix gives the product 0.
VolatilityThrows(weights, covarianceMatrix) ==
  Len(covarianceMatrix) # 0 /\ Len(weights) # Len(covarianceMatrix)

calculatePortfolioVolatility(weights, covarianceMatrix) ==
  LET p == Len(covarianceMatrix)
      variance ==
        RSum([j \in 1..p |->
                RMul(RSum([k \in 1..p |->
                             RMul(weights[k].weight, covarianceMatrix[k][j])]),
                     weights[j].weight)])
  IN  RSqrt(RMaxZero(variance))

\* The historical portfolio returns calculateVaR and calculateCVaR build,
\* sorted ascending.
PortfolioReturnSeries(positions, returns) ==
  LET n == IF positions = <<>> THEN 0 ELSE Len(SeriesOf(returns, positions[1].ticker))
  IN  SortAscending(
        [t \in 1..n |->
           RSum([k \in 1..Len(positions) |->
                   LET returnsArray == SeriesOf(returns, positions[k].ticker)
                   IN  IF t <= Len(returnsArray)
                       THEN RMul(positions[k].weight, returnsArray[t])
                       ELSE Zero])])

\* Math.floor((1 - confidenceLevel) * portfolioReturns.length)
\* Mutant of VarIndex: the index among the length - 1 steps between the
\* observations
VarIndexOfSteps(confidenceLevel, length) ==
  RFloor(RMul(RSub(One, confidenceLevel), Q(length - 1, 1)))

VarIndex(confidenceLevel, length) ==
  RFloor(RMul(RSub(One, confidenceLevel), Q(length, 1)))

\* -portfolioReturns[varIndex]; an index outside the array reads undefined,
\* and -undefined is NaN.
calculateVaR(positions, returns, confidenceLevel) ==
  LET portfolioReturns == PortfolioReturnSeries(positions, returns)
      varIndex == VarIndex(confidenceLevel, Len(portfolioReturns))
  IN  IF varIndex + 1 \in 1..Len(portfolioReturns)
      THEN RNeg(portfolioReturns[varIndex + 1])
      ELSE NaN

\* Array.prototype.slice(0, end)
SliceTo(s, end) ==
  LET last == IF end < 0 THEN (IF Len(s) + end < 0 THEN 0 ELSE Len(s) + end)
              ELSE IF end > Len(s) THEN Len(s) ELSE end
  IN  SubSeq(s, 1, last)

\* Mutant of calculateCVaR: the mean is taken over the returns from the VaR
\* index upwards (slice(varIndex)) instead of up to it.
calculateCVaRUpperTail(positions, returns, confidenceLevel) ==
  LET portfolioReturns == PortfolioReturnSeries(positions, returns)
      varIndex == VarIndex(confidenceLevel, Len(portfolioReturns))
      cvarReturns == SubSeq(portfolioReturns, varIndex + 1, Len(portfolioReturns))
  IN  RDiv(RNeg(RSum(cvarReturns)), Q(Len(cvarReturns), 1))

calculateCVaR(positions, returns, confidenceLevel) ==
  LET portfolioReturns == PortfolioReturnSeries(positions, returns)
      varIndex == VarIndex(confidenceLevel, Len(portfolioReturns))
      cvarReturns == SliceTo(portfolioReturns, varIndex + 1)
  IN  RDiv(RNeg(RSum(cvarReturns)), Q(Len(cvarReturns), 1))

\* new Set([...portfolioWeights.keys(), ...benchmarkWeights.keys()])
RECURSIVE AllTickers(_, _)
AllTickers(seen, entries) ==
  IF entries = <<>> THEN seen
  ELSE AllTickers(IF \E i \in 1..Len(seen) : seen[i] = Head(entries).ticker
                  THEN seen ELSE Append(seen, Head(entries).ticker),
                  Tail(entries))

ActiveWeights(portfolioWeights, benchmarkWeights) ==
  LET allTickers == AllTickers(<<>>, portfolioWeights \o benchmarkWeights)
  IN  [i \in 1..Len(allTickers) |->
         [ticker |-> allTickers[i],
          weight |-> RSub(WeightIn(portfolioWeights, allTickers[i]),
                          WeightIn(benchmarkWeights, allTickers[i]))]]

calculateActiveRisk(portfolioWeights, benchmarkWeights, covarianceMatrix) ==
  calculatePortfolioVolatility(ActiveWeights(portfolioWeights, benchmarkWeights),
                               covarianceMatrix)

calculateActiveShare(portfolioWeights, benchmarkWeights) ==
  LET active == ActiveWeights(portfolioWeights, benchmarkWeights)
  IN  RDiv(RSum([i \in 1..Len(active) |-> RAbs(active[i].weight)]), Q(2, 1))


\* One entry of calculateRiskContributions.  covarianceMatrix.get(i, j) is
\* indexed by the position's place in the list.
RiskContribution(positions, covarianceMatrix, portfolioVolatility, i) ==
  LET pos == positions[i]
      sum == RSum([j \in 1..Len(positions) |->
                     RMul(RMul(pos.weight, covarianceMatrix[i][j]),
                          positions[j].weight)])
      \* marginalContribution /= portfolioVolatility || 1
      marginalContribution ==
        RDiv(sum, IF portfolioVolatility = Zero \/ IsNaN(portfolioVolatility)
                  THEN One ELSE portfolioVolatility)
      percentageContribution ==
        IF RNe(portfolioVolatility, Zero)
        THEN RDiv(RMul(pos.weight, marginalContribution), portfolioVolatility)
        ELSE Zero
      riskAdjustedReturn ==
        IF RNe(marginalContribution, Zero)
        THEN RMul(RDiv(pos.return, marginalContribution), portfolioVolatility)
        ELSE Zero
  IN  [ticker |-> pos.ticker, weight |-> pos.weight,
       marginalContribution |-> marginalContribution,
       percentageContribution |-> percentageContribution,
       riskAdjustedReturn |-> riskAdjustedReturn,
       diversificationBenefit |-> Zero]

\* covarianceMatrix.get(i, j) reads data[i][j]: a position beyond the last
\* row of the matrix is a TypeError.
ContributionsThrow(positions, covarianceMatrix) ==
  Len(positions) > Len(covarianceMatrix)

calculateRiskContributions(positions, covarianceMatrix, portfolioVolatility) ==
  [i \in 1..Len(positions) |->
     RiskContribution(positions, covarianceMatrix, portfolioVolatility, i)]

calculateTailRiskAttribution(positions, confidenceLevel, portfolioVaR, portfolioCVaR) ==
  [varLevel |-> confidenceLevel,
   cvarLevel |-> confidenceLevel,
   varAmount |-> portfolioVaR,
   cvarAmount |-> portfolioCVaR,
   tailRiskContribution |->
     [i \in 1..Len(positions) |->
        [ticker |-> positions[i].ticker,
         varContribution |-> RMul(positions[i].weight, portfolioVaR),
         cvarContribution |-> RMul(positions[i].weight, portfolioCVaR),
         tailCorrelation |-> Zero,
         conditionalContribution |-> RMul(positions[i].weight, portfolioCVaR)]],
   stressTestResults |-> <<>>]

RiskCalculateAttribution(riskConfig, positions, benchmarkData, returns) ==
  LET weights == PositionWeights(positions)
      covarianceMatrix == calculateCovarianceMatrix(returns)
      portfolioVolatility == calculatePortfolioVolatility(weights, covarianceMatrix)
      portfolioVaR == calculateVaR(positions, returns, riskConfig.confidenceLevel)
      portfolioCVaR == calculateCVaR(positions, returns, riskConfig.confidenceLevel)
      benchmarkWeights == benchmarkData.weights
      benchmarkVolatility ==
        calculatePortfolioVolatility(benchmarkWeights, covarianceMatrix)
      ratio == RDiv(benchmarkVolatility, portfolioVolatility)
  IN  IF \/ VolatilityThrows(weights, covarianceMatrix)
         \/ VolatilityThrows(benchmarkWeights, covarianceMatrix)
         \/ VolatilityThrows(ActiveWeights(weights, benchmarkWeights), covarianceMatrix)
         \/ ContributionsThrow(positions, covarianceMatrix)
      THEN Threw("TypeError")
      ELSE [status |-> "ok",
            portfolioVolatility |-> portfolioVolatility,
            portfolioVaR |-> portfolioVaR,
            portfolioCVaR |-> portfolioCVaR,
            benchmarkVolatility |-> benchmarkVolatility,
            benchmarkVaR |-> RMul(portfolioVaR, ratio),
            benchmarkCVaR |-> RMul(portfolioCVaR, ratio),
            activeRisk |->
              calculateActiveRisk(weights, benchmarkWeights, covarianceMatrix),
            activeShare |-> calculateActiveShare(weights, benchmarkWeights),
            positionContributions |->
              calculateRiskContributions(positions, covarianceMatrix,
                                         portfolioVolatility),
            factorRiskAttribution |-> <<>>,
            tailRiskAttribution |->
              calculateTailRiskAttribution(positions, riskConfig.confidenceLevel,
                                           portfolioVaR, portfolioCVaR)]


(***************************************************************************)
(* Multi-period Brinson attribution (brinson_calculator.ts)                *)
(*                                                                         *)
(* Math.log.  Period returns are taken from the grid on which 1 + R is a   *)
(* power of LnBase = 5/4 (-20%, 0, +25%, +56.25%), which compounding       *)
(* preserves; on it ln(x) = k * ln(5/4) with k the exponent of x, and      *)
(* ln(5/4) = 0.2231435513... is the rational LnOfBase (error below 1e-8).  *)
(* Wherever the code divides one logarithm by another the constant cancels *)
(* and the model is exact.                                                 *)
(***************************************************************************)
LnBase == Q(5, 4)

LnOfBase == Q(1211, 5427)

LogRange == -8..8

RECURSIVE RPow(_, _)
RPow(a, k) ==
  IF k = 0 THEN One
  ELSE IF k < 0 THEN RDiv(One, RPow(a, -k))
  ELSE RMul(a, RPow(a, k - 1))

LogUnits(x) == CHOOSE k \in LogRange : RPow(LnBase, k) = x

\* Math.log
Ln(x) ==
  IF IsNaN(x) THEN NaN
  ELSE IF x = PosInf THEN PosInf
  ELSE IF x = NegInf \/ x[1] < 0 THEN NaN
  ELSE IF x[1] = 0 THEN NegInf
  ELSE RMul(Q(LogUnits(x), 1), LnOfBase)

\* Math.abs(x) > 1e-10.  A non-zero rational of the model has a denominator
\* below 2^31, so its magnitude is above 1e-10.
ExceedsTiny(x) == ~IsNaN(x) /\ x[1] # 0

\* returns.reduce((acc, r) => acc * (1 + r), 1)
RECURSIVE Compound(_)
Compound(returns) ==
  IF returns = <<>> THEN One
  ELSE RMul(Compound(SubSeq(returns, 1, Len(returns) - 1)),
            RAdd(One, returns[Len(returns)]))

\* Mutant of chainLinkReturnsUtil: the period returns are added up.
chainLinkReturnsSum(returns) == RSum(returns)

\* chainLinkReturnsUtil of types/attribution.ts
chainLinkReturnsUtil(returns) ==
  IF Len(returns) = 0 THEN Zero ELSE RSub(Compound(returns), One)

\* chainLinkReturns of base_attribution.ts
chainLinkReturns(returns) ==
  IF Len(returns) = 0 THEN Zero ELSE RSub(Compound(returns), One)

\* The effects of the periods weighted by kt and added up.
LinkWith(kt, allocationEffects, selectionEffects, interactionEffects, smoothing) ==
  LET n == Len(allocationEffects)
  IN  [linkedAllocationEffect |->
         RSum([t \in 1..n |-> RMul(kt[t], allocationEffects[t])]),
       linkedSelectionEffect |->
         RSum([t \in 1..n |-> RMul(kt[t], selectionEffects[t])]),
       linkedInteractionEffect |->
         RSum([t \in 1..n |-> RMul(kt[t], interactionEffects[t])]),
       smoothingAdjustment |-> smoothing]

\* The factor of one period in applyCarinoLinking.
CarinoFactor(Rp, Rb) ==
  IF RNe(Rp, Rb)
  THEN RDiv(RSub(Ln(RAdd(One, Rp)), Ln(RAdd(One, Rb))), RSub(Rp, Rb))
  ELSE RDiv(One, RAdd(One, Rb))

applyCarinoLinking(allocationEffects, selectionEffects, interactionEffects, portfolioReturns, benchmarkReturns) ==
  LET n == Len(allocationEffects)
      Scaled(k) ==
        LinkWith([t \in 1..n |->
                    IF RNe(portfolioReturns[t], benchmarkReturns[t])
                    THEN RDiv(CarinoFactor(portfolioReturns[t], benchmarkReturns[t]), k)
                    ELSE RDiv(One, RMul(RAdd(One, benchmarkReturns[t]), k))],
                 allocationEffects, selectionEffects, interactionEffects, Zero)
  IN  Scaled(RDiv(RSum([t \in 1..n |->
                          CarinoFactor(portfolioReturns[t], benchmarkReturns[t])]),
                  Q(n, 1)))

\* cumulativePortfolioReturns / cumulativeBenchmarkReturns of the linking
\* methods: the compounded return up to and including period t.
CumulativeReturns(returns) ==
  [t \in 1..Len(returns) |-> RSub(Compound(SubSeq(returns, 1, t)), One)]

applyMencheroLinking(allocationEffects, selectionEffects, interactionEffects, portfolioReturns, benchmarkReturns) ==
  LET n == Len(allocationEffects)
      Scaled(cumP, cumB, k) ==
        LinkWith([t \in 1..n |->
                    IF ExceedsTiny(k)
                    THEN RDiv(RSub(Ln(RMul(RAdd(One, IF t = 1 THEN Zero ELSE cumP[t - 1]),
                                           RAdd(One, portfolioReturns[t]))),
                                   Ln(RMul(RAdd(One, IF t = 1 THEN Zero ELSE cumB[t - 1]),
                                           RAdd(One, benchmarkReturns[t])))),
                              k)
                    ELSE RDiv(One, Q(n, 1))],
                 allocationEffects, selectionEffects, interactionEffects, Zero)
      Cumulated(cumP, cumB) ==
        Scaled(cumP, cumB, RSub(Ln(RAdd(One, cumP[n])), Ln(RAdd(One, cumB[n]))))
  IN  Cumulated(CumulativeReturns(portfolioReturns), CumulativeReturns(benchmarkReturns))

\* With no period cumulativePortfolioReturns[n - 1] is undefined and the
\* cumulative active return NaN.
\* GRAP linking with the raw effects left unscaled: the factor is 1 whatever
\* the effects sum to.
applyGRAPLinkingUnscaled(allocationEffects, selectionEffects, interactionEffects, portfolioReturns, benchmarkReturns) ==
  LET n == Len(allocationEffects)
      Unscaled(cumulativeActiveReturn, linked) ==
        [linked EXCEPT !.smoothingAdjustment =
           RSub(cumulativeActiveReturn,
                RAdd(RAdd(linked.linkedAllocationEffect, linked.linkedSelectionEffect),
                     linked.linkedInteractionEffect))]
  IN  Unscaled(IF n = 0 THEN NaN
               ELSE RSub(CumulativeReturns(portfolioReturns)[n],
                         CumulativeReturns(benchmarkReturns)[n]),
               LinkWith([t \in 1..n |-> One], allocationEffects, selectionEffects,
                        interactionEffects, Zero))

applyGRAPLinking(allocationEffects, selectionEffects, interactionEffects, portfolioReturns, benchmarkReturns) ==
  LET n == Len(allocationEffects)
      Smoothed(cumulativeActiveReturn, linked) ==
        [linked EXCEPT !.smoothingAdjustment =
           RSub(cumulativeActiveReturn,
                RAdd(RAdd(linked.linkedAllocationEffect, linked.linkedSelectionEffect),
                     linked.linkedInteractionEffect))]
      Scaled(cumulativeActiveReturn, totalEffect) ==
        Smoothed(cumulativeActiveReturn,
                 LinkWith([t \in 1..n |->
                             IF ExceedsTiny(totalEffect)
                             THEN RDiv(cumulativeActiveReturn, totalEffect) ELSE One],
                          allocationEffects, selectionEffects, interactionEffects, Zero))
  IN  Scaled(IF n = 0 THEN NaN
             ELSE RSub(CumulativeReturns(portfolioReturns)[n],
                       CumulativeReturns(benchmarkReturns)[n]),
             RAdd(RAdd(RSum(allocationEffects), RSum(selectionEffects)),
                  RSum(interactionEffects)))

\* periods is the list of the single-period results.
calculateLinkedAttribution(periods, method) ==
  LET n == Len(periods)
      allocationEffects == [t \in 1..n |-> periods[t].allocationEffect]
      selectionEffects == [t \in 1..n |-> periods[t].selectionEffect]
      interactionEffects == [t \in 1..n |-> periods[t].interactionEffect]
      portfolioReturns == [t \in 1..n |-> periods[t].portfolioReturn]
      benchmarkReturns == [t \in 1..n |-> periods[t].benchmarkReturn]
      Residual(linked, cumulativeActiveReturn) ==
        [method |-> method,
         linkedAllocationEffect |-> linked.linkedAllocationEffect,
         linkedSelectionEffect |-> linked.linkedSelectionEffect,
         linkedInteractionEffect |-> linked.linkedInteractionEffect,
         smoothingAdjustment |-> linked.smoothingAdjustment,
         residual |->
           RSub(cumulativeActiveReturn,
                RAdd(RAdd(linked.linkedAllocationEffect, linked.linkedSelectionEffect),
                     linked.linkedInteractionEffect))]
  IN  Residual(
        IF method = "Carino"
        THEN applyCarinoLinking(allocationEffects, selectionEffects,
                                interactionEffects, portfolioReturns, benchmarkReturns)
        ELSE IF method = "Menchero"
        THEN applyMencheroLinking(allocationEffects, selectionEffects,
                                  interactionEffects, portfolioReturns, benchmarkReturns)
        ELSE IF method = "GRAP"
        THEN applyGRAPLinking(allocationEffects, selectionEffects,
                              interactionEffects, portfolioReturns, benchmarkReturns)
        ELSE LinkWith([t \in 1..n |-> One], allocationEffects, selectionEffects,
                      interactionEffects, Zero),
        chainLinkReturnsUtil([t \in 1..n |-> periods[t].activeReturn]))

\* calculateGeometricAttribution of the Brinson calculator
calculateGeometricAttribution(periods, cumulativePortfolioReturn) ==
  LET n == Len(periods)
      adjustmentFactor ==
        RDiv(cumulativePortfolioReturn, RAdd(cumulativePortfolioReturn, One))
      alloc == RMul(chainLinkReturnsUtil([t \in 1..n |-> periods[t].allocationEffect]),
                    adjustmentFactor)
      sel == RMul(chainLinkReturnsUtil([t \in 1..n |-> periods[t].selectionEffect]),
                  adjustmentFactor)
      inter == RMul(chainLinkReturnsUtil([t \in 1..n |-> periods[t].interactionEffect]),
                    adjustmentFactor)
  IN  [geometricAllocationEffect |-> alloc,
       geometricSelectionEffect |-> sel,
       geometricInteractionEffect |-> inter,
       totalGeometricEffect |-> RAdd(RAdd(alloc, sel), inter)]

\* calculateAttributionDrift of the Brinson calculator: a constant.
calculateAttributionDrift ==
  [allocationConsistency |-> Zero, selectionConsistency |-> Zero,
   interactionConsistency |-> Zero, regimeChanges |-> <<>>, rollingWindows |-> <<>>]

\* array.filter(predicate).length
CountWhere(s, P(_)) == Cardinality({t \in 1..Len(s) : P(s[t])})

IsPositive(x) == RLt(Zero, x)

IsNegative(x) == RLt(x, Zero)

\* ss.median of a non-empty list
Median(s) ==
  LET sorted == SortAscending(s)
      n == Len(s)
  IN  IF n % 2 = 1 THEN sorted[(n + 1) \div 2]
      ELSE RDiv(RAdd(sorted[n \div 2], sorted[n \div 2 + 1]), Q(2, 1))

calculateConsistencyScore(activeReturns) ==
  IF Len(activeReturns) < 2 THEN One
  ELSE Q(CountWhere(activeReturns, IsPositive), Len(activeReturns))

\* ss.mean of an empty list throws before anything else of the summary is
\* computed.
SummaryThrows(periods) == Len(periods) = 0

\* calculateMultiPeriodSummary, without the statistics that are standard
\* deviations (stdDevActiveReturn and the averages of the periods'
\* information ratio and tracking error).
calculateMultiPeriodSummary(periods, cumulativePortfolioReturn, cumulativeBenchmarkReturn) ==
  LET n == Len(periods)
      activeReturns == [t \in 1..n |-> periods[t].activeReturn]
      sorted == SortAscending(activeReturns)
  IN  [totalPeriods |-> n,
       positiveActiveReturnPeriods |-> CountWhere(activeReturns, IsPositive),
       negativeActiveReturnPeriods |-> CountWhere(activeReturns, IsNegative),
       averageActiveReturn |-> RDiv(RSum(activeReturns), Q(n, 1)),
       medianActiveReturn |-> Median(activeReturns),
       maxActiveReturn |-> sorted[n],
       minActiveReturn |-> sorted[1],
       hitRate |-> Q(CountWhere(activeReturns, IsPositive), n),
       consistencyScore |-> calculateConsistencyScore(activeReturns),
       cumulativePortfolioReturn |-> cumulativePortfolioReturn,
       cumulativeBenchmarkReturn |-> cumulativeBenchmarkReturn,
       cumulativeActiveReturn |->
         RSub(cumulativePortfolioReturn, cumulativeBenchmarkReturn)]

\* periods.map(p => calculateSinglePeriodAttribution(p.positions, p.benchmark))
SinglePeriodAttributions(periods) ==
  [t \in 1..Len(periods) |->
     calculateSinglePeriodAttribution(periods[t].positions, periods[t].benchmark)]

SomePeriodThrows(singlePeriodAttributions) ==
  \E t \in 1..Len(singlePeriodAttributions) :
    singlePeriodAttributions[t].status = "threw"

calculateMultiPeriodAttribution(brinsonConfig, periods) ==
  LET n == Len(periods)
      Linked(singlePeriodAttributions, cumulativePortfolioReturn, cumulativeBenchmarkReturn) ==
        IF SomePeriodThrows(singlePeriodAttributions)
        THEN Threw("mean requires at least one data point")
        ELSE IF SummaryThrows(singlePeriodAttributions)
        THEN Threw("mean requires at least one data point")
        ELSE [status |-> "ok",
              periods |-> singlePeriodAttributions,
              cumulativeReturn |-> cumulativePortfolioReturn,
              cumulativeBenchmarkReturn |-> cumulativeBenchmarkReturn,
              cumulativeActiveReturn |->
                calculateActiveReturnUtil(cumulativePortfolioReturn,
                                          cumulativeBenchmarkReturn),
              geometricAttribution |->
                calculateGeometricAttribution(singlePeriodAttributions,
                                              cumulativePortfolioReturn),
              linkedAttribution |->
                calculateLinkedAttribution(singlePeriodAttributions,
                                           brinsonConfig.linkingMethod),
              driftAnalysis |-> calculateAttributionDrift,
              summaryStatistics |->
                calculateMultiPeriodSummary(singlePeriodAttributions,
                                            cumulativePortfolioReturn,
                                            cumulativeBenchmarkReturn)]
  IN  Linked(SinglePeriodAttributions(periods),
             chainLinkReturnsUtil(
               [t \in 1..n |-> SinglePeriodAttributions(periods)[t].portfolioReturn]),
             chainLinkReturnsUtil(
               [t \in 1..n |-> SinglePeriodAttributions(periods)[t].benchmarkReturn]))

(***************************************************************************)
(* MultiPeriodAttributionCalculator (multi_period_calculator.ts)           *)
(***************************************************************************)
\* calculateGeometricAttribution of the multi-period calculator
MultiPeriodGeometricAttribution(periods) ==
  LET n == Len(periods)
      alloc == chainLinkReturns([t \in 1..n |-> periods[t].allocationEffect])
      sel == chainLinkReturns([t \in 1..n |-> periods[t].selectionEffect])
      inter == chainLinkReturns([t \in 1..n |-> periods[t].interactionEffect])
  IN  [geometricAllocationEffect |-> alloc,
       geometricSelectionEffect |-> sel,
       geometricInteractionEffect |-> inter,
       totalGeometricEffect |-> RAdd(RAdd(alloc, sel), inter)]

NoGeometricAttribution ==
  [geometricAllocationEffect |-> Zero, geometricSelectionEffect |-> Zero,
   geometricInteractionEffect |-> Zero, totalGeometricEffect |-> Zero]

calculateConsistency(effects) ==
  IF Len(effects) < 2 THEN One
  ELSE LET ratio == Q(CountWhere(effects, IsPositive), Len(effects))
       IN  RSub(One, RMul(Q(2, 1), RAbs(RSub(ratio, Q(1, 2)))))

\* One iteration of detectRegimeChanges; i is the period's place in the list.
RegimeChangeAt(periods, threshold, i) ==
  LET allocationChange ==
        RAbs(RSub(periods[i].allocationEffect, periods[i - 1].allocationEffect))
      selectionChange ==
        RAbs(RSub(periods[i].selectionEffect, periods[i - 1].selectionEffect))
  IN  [detected |-> RLt(threshold, allocationChange) \/ RLt(threshold, selectionChange),
       date |-> i,
       fromRegime |-> "stable",
       toRegime |-> "volatile",
       confidence |-> IF RLt(allocationChange, selectionChange)
                      THEN selectionChange ELSE allocationChange,
       impactOnAttribution |->
         IF RLt(selectionChange, allocationChange)
         THEN "Allocation-driven regime change"
         ELSE "Selection-driven regime change"]

RECURSIVE RegimeChangesUpTo(_, _, _)
RegimeChangesUpTo(periods, threshold, i) ==
  IF i < 2 THEN <<>>
  ELSE LET earlier == RegimeChangesUpTo(periods, threshold, i - 1)
           change == RegimeChangeAt(periods, threshold, i)
       IN  IF change.detected THEN Append(earlier, change) ELSE earlier

\* detectRegimeChanges looking at the last pair of periods only.
detectRegimeChangesLastPair(periods, threshold) ==
  IF Len(periods) < 2 THEN <<>>
  ELSE IF RegimeChangeAt(periods, threshold, Len(periods)).detected
  THEN <<RegimeChangeAt(periods, threshold, Len(periods))>>
  ELSE <<>>

detectRegimeChanges(periods, threshold) ==
  RegimeChangesUpTo(periods, threshold, Len(periods))

calculateEffectPersistence(effects) ==
  IF Len(effects) < 2 THEN One
  ELSE Q(Cardinality({i \in 2..Len(effects) :
                        \/ IsPositive(effects[i]) /\ IsPositive(effects[i - 1])
                        \/ IsNegative(effects[i]) /\ IsNegative(effects[i - 1])}),
         Len(effects) - 1)

\* calculateDriftAnalysis throws where simple-statistics does: calculateTiltDrift
\* takes ss.standardDeviation of the periods' allocation effects (no period:
\* "variance requires at least one data point"), and calculateIC takes
\* ss.sampleCorrelation of the effects without the last and without the first
\* (two periods: one point each, "sampleCovariance requires at least two data
\* points in each sample").
DriftThrows(periods) == Len(periods) = 0 \/ Len(periods) = 2

\* calculateDriftAnalysis, without the values that are standard deviations or
\* correlations (styleDrift, icAllocation, icSelection).
calculateDriftAnalysis(multiPeriodConfig, periods) ==
  LET n == Len(periods)
      allocationEffects == [t \in 1..n |-> periods[t].allocationEffect]
      selectionEffects == [t \in 1..n |-> periods[t].selectionEffect]
      activeReturns == [t \in 1..n |-> periods[t].activeReturn]
  IN  [allocationConsistency |-> calculateConsistency(allocationEffects),
       selectionConsistency |-> calculateConsistency(selectionEffects),
       regimeChanges |->
         detectRegimeChanges(periods, multiPeriodConfig.regimeChangeThreshold),
       persistenceAnalysis |->
         [allocationEffectPersistence |-> calculateEffectPersistence(allocationEffects),
          selectionEffectPersistence |-> calculateEffectPersistence(selectionEffects),
          hitRate |-> RDiv(Q(CountWhere(activeReturns, IsPositive), 1), Q(n, 1))]]

NoDriftAnalysis ==
  [allocationConsistency |-> Zero,
   selectionConsistency |-> Zero,
   regimeChanges |-> <<>>,
   persistenceAnalysis |->
     [allocationEffectPersistence |-> Zero, selectionEffectPersistence |-> Zero,
      hitRate |-> Zero]]

MultiPeriodCalculateAttribution(multiPeriodConfig, periods) ==
  LET singlePeriodAttributions == SinglePeriodAttributions(periods)
      n == Len(periods)
      portfolioReturns == [t \in 1..n |-> singlePeriodAttributions[t].portfolioReturn]
  IN  IF SomePeriodThrows(singlePeriodAttributions)
      THEN Threw("mean requires at least one data point")
      ELSE IF multiPeriodConfig.includeDriftAnalysis /\ DriftThrows(singlePeriodAttributions)
      THEN Threw(IF n = 0 THEN "variance requires at least one data point"
                 ELSE "sampleCovariance requires at least two data points in each sample")
      ELSE [status |-> "ok",
            periods |-> singlePeriodAttributions,
            cumulativeReturn |-> chainLinkReturns(portfolioReturns),
            geometricAttribution |->
              IF multiPeriodConfig.includeGeometricAttribution
              THEN MultiPeriodGeometricAttribution(singlePeriodAttributions)
              ELSE NoGeometricAttribution,
            driftAnalysis |->
              IF multiPeriodConfig.includeDriftAnalysis
              THEN calculateDriftAnalysis(multiPeriodConfig, singlePeriodAttributions)
              ELSE NoDriftAnalysis]


(***************************************************************************)
(* FactorAttributionCalculator (factor_calculator.ts)                      *)
(*                                                                         *)
(* factorExposures is the Map ticker -> Map factor -> exposure: a function *)
(* on the tickers that have an entry, whose values are the sequences of    *)
(* entries [factor, exposure] in insertion order.  factorReturns is the    *)
(* Map factor -> return series as a function on the factors it holds.      *)
(***************************************************************************)
LowerOf ==
  ("A" :> "a") @@ ("B" :> "b") @@ ("C" :> "c") @@ ("D" :> "d") @@ ("E" :> "e")
  @@ ("F" :> "f") @@ ("G" :> "g") @@ ("H" :> "h") @@ ("I" :> "i") @@ ("J" :> "j")
  @@ ("K" :> "k") @@ ("L" :> "l") @@ ("M" :> "m") @@ ("N" :> "n") @@ ("O" :> "o")
  @@ ("P" :> "p") @@ ("Q" :> "q") @@ ("R" :> "r") @@ ("S" :> "s") @@ ("T" :> "t")
  @@ ("U" :> "u") @@ ("V" :> "v") @@ ("W" :> "w") @@ ("X" :> "x") @@ ("Y" :> "y")
  @@ ("Z" :> "z")

\* String.prototype.toLowerCase
RECURSIVE toLowerCase(_)
toLowerCase(s) ==
  IF Len(s) = 0 THEN ""
  ELSE LET c == SubSeq(s, 1, 1)
       IN  (IF c \in DOMAIN LowerOf THEN LowerOf[c] ELSE c)
           \o toLowerCase(SubSeq(s, 2, Len(s)))

StartsWith(s, prefix) ==
  Len(s) >= Len(prefix) /\ SubSeq(s, 1, Len(prefix)) = prefix

\* factor.replace(/^(industry|sector)_/, '')
StripIndustryPrefix(factor) ==
  IF StartsWith(factor, "industry_") THEN SubSeq(factor, 10, Len(factor))
  ELSE IF StartsWith(factor, "sector_") THEN SubSeq(factor, 8, Len(factor))
  ELSE factor

FactorEntry(f, e) == [factor |-> f, exposure |-> e]

\* factorExposures.get(pos.ticker) || new Map()
ExposuresOf(factorExposures, ticker) ==
  IF ticker \in DOMAIN factorExposures THEN factorExposures[ticker] ELSE <<>>

\* The body of the inner loop of calculateIndustryFactorAttribution.
AddIndustryExposure(industryMap, pos, entry) ==
  IF Includes(entry.factor, "industry") \/ Includes(entry.factor, "sector")
  THEN LET industry == StripIndustryPrefix(entry.factor)
           m == IF \E i \in 1..Len(industryMap) : industryMap[i].industry = industry
                THEN industryMap
                ELSE Append(industryMap,
                            [industry |-> industry, exposure |-> Zero,
                             return |-> Zero, contribution |-> Zero,
                             benchmarkExposure |-> Zero, activeExposure |-> Zero])
           i == CHOOSE k \in 1..Len(m) : m[k].industry = industry
       IN  [m EXCEPT ![i].exposure = RAdd(@, RMul(pos.weight, entry.exposure)),
                     ![i].return = RAdd(@, RMul(pos.return, entry.exposure)),
                     ![i].contribution = RAdd(@, RMul(pos.contribution, entry.exposure))]
  ELSE industryMap

RECURSIVE IndustryExposurePass(_, _, _)
IndustryExposurePass(industryMap, pos, exposures) ==
  IF exposures = <<>> THEN industryMap
  ELSE IndustryExposurePass(AddIndustryExposure(industryMap, pos, Head(exposures)),
                            pos, Tail(exposures))

RECURSIVE IndustryPositionPass(_, _, _)
IndustryPositionPass(industryMap, positions, factorExposures) ==
  IF positions = <<>> THEN industryMap
  ELSE IndustryPositionPass(
         IndustryExposurePass(industryMap, Head(positions),
                              ExposuresOf(factorExposures, Head(positions).ticker)),
         Tail(positions), factorExposures)

calculateIndustryFactorAttribution(positions, factorExposures) ==
  LET industryMap == IndustryPositionPass(<<>>, positions, factorExposures)
  IN  [i \in 1..Len(industryMap) |->
         LET benchmarkExposure == RMul(industryMap[i].exposure, Q(1, 2))
         IN  [industryMap[i] EXCEPT
                !.benchmarkExposure = benchmarkExposure,
                !.activeExposure = RSub(industryMap[i].exposure, benchmarkExposure)]]

getStyleType(style) ==
  IF toLowerCase(style) \in {"value", "growth", "quality", "momentum",
                             "volatility", "liquidity"}
  THEN toLowerCase(style) ELSE "value"

\* What the loops of calculateStyleFactorAttribution add to one style: the sum,
\* over the positions and their exposure entries whose factor name includes
\* the style, of the term the position contributes for the entry.
StyleTotal(style, positions, factorExposures, Term(_, _)) ==
  RSum([k \in 1..Len(positions) |->
          LET exposures == ExposuresOf(factorExposures, positions[k].ticker)
          IN  RSum([e \in 1..Len(exposures) |->
                      IF Includes(toLowerCase(exposures[e].factor), toLowerCase(style))
                      THEN Term(positions[k], exposures[e].exposure)
                      ELSE Zero])])

calculateStyleFactorAttribution(styleFactors, positions, factorExposures) ==
  LET ExposureTerm(pos, exposure) == RMul(pos.weight, exposure)
      ReturnTerm(pos, exposure) == RMul(pos.return, exposure)
      ContributionTerm(pos, exposure) == RMul(pos.contribution, exposure)
      NonZeroExposure(s) == RNe(s.exposure, Zero)
      styleMap ==
        [i \in 1..Len(styleFactors) |->
           [style |-> styleFactors[i],
            exposure |->
              StyleTotal(styleFactors[i], positions, factorExposures, ExposureTerm),
            return |->
              StyleTotal(styleFactors[i], positions, factorExposures, ReturnTerm),
            contribution |->
              StyleTotal(styleFactors[i], positions, factorExposures, ContributionTerm),
            type |-> getStyleType(styleFactors[i])]]
  IN  SelectSeq(styleMap, NonZeroExposure)

getMacroType(macroFactor) ==
  LET name == toLowerCase(macroFactor)
  IN  IF name \in {"rates", "interest_rates"} THEN "rates"
      ELSE IF name \in {"inflation", "cpi"} THEN "inflation"
      ELSE IF name \in {"fx", "currency", "exchange_rate"} THEN "fx"
      ELSE IF name \in {"credit", "credit_spread"} THEN "credit"
      ELSE IF name \in {"commodity", "oil", "gold"} THEN "commodity"
      ELSE "rates"

calculateMacroFactorAttribution(macroFactors, positions, factorReturns) ==
  [i \in 1..Len(macroFactors) |->
     LET factorReturnsList ==
           IF macroFactors[i] \in DOMAIN factorReturns
           THEN factorReturns[macroFactors[i]] ELSE <<>>
         avgReturn ==
           IF Len(factorReturnsList) > 0
           THEN RDiv(RSum(factorReturnsList), Q(Len(factorReturnsList), 1))
           ELSE Zero
         sensitivity ==
           RSum([k \in 1..Len(positions) |->
                   RMul(RMul(positions[k].weight, positions[k].return), avgReturn)])
     IN  [macroFactor |-> macroFactors[i],
          sensitivity |-> sensitivity,
          contribution |-> RMul(sensitivity, avgReturn),
          type |-> getMacroType(macroFactors[i])]]

\* const factorReturn = 0; return totalReturn - factorReturn
calculateSpecificReturn(positions) ==
  RSub(calculatePortfolioReturn(positions), Zero)

\* Math.min(0.95, factorReturns.size * 0.1)
calculateRSquared(factorReturns) ==
  LET proxy == RMul(Q(Cardinality(DOMAIN factorReturns), 1), Q(1, 10))
  IN  IF RLt(proxy, Q(19, 20)) THEN proxy ELSE Q(19, 20)

calculateAlpha(positions) ==
  LET totalReturn == calculatePortfolioReturn(positions)
  IN  RSub(totalReturn, RMul(totalReturn, Q(9, 10)))

\* factorMap.set(key, value)
FactorMapSet(factorMap, key, value) ==
  IF \E i \in 1..Len(factorMap) : factorMap[i].key = key
  THEN [i \in 1..Len(factorMap) |->
          IF factorMap[i].key = key THEN [key |-> key, value |-> value]
          ELSE factorMap[i]]
  ELSE Append(factorMap, [key |-> key, value |-> value])

RECURSIVE FactorMapSetAll(_, _)
FactorMapSetAll(factorMap, entries) ==
  IF entries = <<>> THEN factorMap
  ELSE FactorMapSetAll(FactorMapSet(factorMap, Head(entries).key, Head(entries).value),
                       Tail(entries))

buildFactorExposureMap(industryFactors, styleFactors, macroFactors) ==
  FactorMapSetAll(<<>>,
    [i \in 1..Len(industryFactors) |->
       [key |-> "industry_" \o industryFactors[i].industry,
        value |-> industryFactors[i].exposure]]
    \o [i \in 1..Len(styleFactors) |->
          [key |-> "style_" \o styleFactors[i].style,
           value |-> styleFactors[i].exposure]]
    \o [i \in 1..Len(macroFactors) |->
          [key |-> "macro_" \o macroFactors[i].macroFactor,
           value |-> macroFactors[i].sensitivity]])

buildFactorContributionMap(industryFactors, styleFactors, macroFactors) ==
  FactorMapSetAll(<<>>,
    [i \in 1..Len(industryFactors) |->
       [key |-> "industry_" \o industryFactors[i].industry,
        value |-> industryFactors[i].contribution]]
    \o [i \in 1..Len(styleFactors) |->
          [key |-> "style_" \o styleFactors[i].style,
           value |-> styleFactors[i].contribution]]
    \o [i \in 1..Len(macroFactors) |->
          [key |-> "macro_" \o macroFactors[i].macroFactor,
           value |-> macroFactors[i].contribution]])

FactorCalculateAttribution(factorConfig, positions, factorReturns, factorExposures) ==
  LET totalReturn == calculatePortfolioReturn(positions)
      industryFactors == calculateIndustryFactorAttribution(positions, factorExposures)
      styleFactors ==
        calculateStyleFactorAttribution(factorConfig.styleFactors, positions,
                                        factorExposures)
      macroFactors ==
        calculateMacroFactorAttribution(factorConfig.macroFactors, positions,
                                        factorReturns)
      factorReturn ==
        RAdd(RSum([i \in 1..Len(industryFactors) |-> industryFactors[i].contribution]),
             RSum([i \in 1..Len(styleFactors) |-> styleFactors[i].contribution]))
  IN  [status |-> "ok",
       totalReturn |-> totalReturn,
       factorReturn |-> factorReturn,
       specificReturn |-> calculateSpecificReturn(positions),
       alpha |-> calculateAlpha(positions),
       industryFactors |-> industryFactors,
       styleFactors |-> styleFactors,
       macroFactors |-> macroFactors,
       rSquared |-> calculateRSquared(factorReturns),
       factorExposure |->
         buildFactorExposureMap(industryFactors, styleFactors, macroFactors),
       factorContribution |->
         buildFactorContributionMap(industryFactors, styleFactors, macroFactors)]


(***************************************************************************)
(* Inputs of the single-period calculator                                  *)
(***************************************************************************)
MaxPositions == 2

\* Positions as the data model requires them: contribution = weight * return.
\* WMT is tagged by its holder but unknown to inferSector.
RegularPositions ==
  {Position(ts[1], ts[2], Q(1, 2), r, RMul(Q(1, 2), r), Undefined) :
     ts \in {<<"AAPL", "Technology">>, <<"AAPL", "">>, <<"WMT", "Consumer Staples">>},
     r \in {Q(1, 10), Q(-1, 5)}}
  \cup {Position("AAPL", "Technology", One, Q(1, 10), Q(1, 10), Undefined)}

\* A position that holds nothing, one that carries the legacy portfolioWeight
\* field, and two whose contribution is not weight * return.
OddPositions ==
  {Position("JPM", "Financials", Zero, Q(1, 10), Zero, Undefined),
   Position("AAPL", "Technology", Q(1, 2), Q(1, 10), Q(1, 20), Q(1, 4)),
   Position("JPM", "Financials", Zero, Q(1, 10), Q(1, 100), Undefined),
   Position("AAPL", "Technology", Q(1, 2), Q(1, 10), Q(1, 10), Undefined)}

Positions == RegularPositions \cup OddPositions

\* Every list of one or two positions, regular or odd, and every list of up to
\* MaxPositions regular positions: an odd position shows what it does alone or
\* next to one other position.
PositionLists == SeqsUpTo(Positions, 2) \cup SeqsUpTo(RegularPositions, MaxPositions)

Entry(t, w) == [ticker |-> t, weight |-> w]

BenchmarkWeights ==
  {<<>>,
   <<Entry("AAPL", One)>>,
   <<Entry("AAPL", Q(1, 2)), Entry("JPM", Q(1, 2))>>,
   <<Entry("WMT", Q(1, 2)), Entry("AAPL", Q(1, 2))>>}

BenchmarkReturns ==
  {("AAPL" :> Q(1, 10)) @@ ("JPM" :> Zero),
   ("AAPL" :> Q(1, 10)) @@ ("JPM" :> Q(1, 5)),
   <<>>}

\* sum of weight * return over the constituents, as the fixtures of the
\* repository compute a benchmark's totalReturn
ConstituentReturn(weights, returns) ==
  RSum([i \in 1..Len(weights) |->
          RMul(weights[i].weight, GetOrZero(returns, weights[i].ticker))])

Benchmarks ==
  {[weights |-> w, returns |-> r, totalReturn |-> t] :
     <<w, r, t>> \in
       {<<w, r, t>> \in BenchmarkWeights \X BenchmarkReturns \X
                        ({Q(1, 20)} \cup {ConstituentReturn(w2, r2) :
                            w2 \in BenchmarkWeights, r2 \in BenchmarkReturns}) :
          t \in {Q(1, 20), ConstituentReturn(w, r)}}}

ConsistentBenchmark(b) == b.totalReturn = ConstituentReturn(b.weights, b.returns)

ValidPosition(pos) == pos.contribution = RMul(pos.weight, pos.return)

ValidSinglePeriodInput(positions, benchmark) ==
  /\ \A i \in 1..Len(positions) : ValidPosition(positions[i])
  /\ ConsistentBenchmark(benchmark)

SectorLookups ==
  {("AAPL" :> "Technology"),
   ("AAPL" :> "Technology") @@ ("WMT" :> "Consumer Staples") @@ ("JPM" :> "Financials")}

(***************************************************************************)
(* Inputs of the risk calculator                                           *)
(***************************************************************************)
\* Return series.  A series m + d * (-1, 0, 1) has sample variance d^2 and
\* two of them have covariance d1 * d2, so every w' Sigma w below is the
\* square of a rational and Math.sqrt is exact on it.
Pattern(m, d) == <<RSub(m, d), m, RAdd(m, d)>>

ReturnSeries ==
  {Pattern(Zero, Q(1, 10)),           \* -10%, 0, +10%
   Pattern(Q(1, 100), Q(-1, 5)),      \* moves against the first, twice as far
   Pattern(Q(1, 20), Zero),           \* the same return every period
   <<Q(1, 10), Q(1, 10)>>,            \* a shorter series
   <<>>}                              \* no history

\* Twenty observations in percent, unsorted, with mean 0 and sample
\* variance 4 (standard deviation 2%).
TwentyReturns ==
  [t \in 1..20 |->
     Q(<<0, 5, -3, 0, 2, 0, -5, 0, 3, 0, 0, -2, 0, 0, 0, 0, 0, 0, 0, 0>>[t], 100)]

HistoricalReturns ==
  {<<>>}
  \cup {<<SeriesEntry("AAPL", s)>> : s \in ReturnSeries}
  \cup {<<SeriesEntry("AAPL", <<Q(1, 10)>>)>>}   \* a single observation
  \cup {<<SeriesEntry("AAPL", TwentyReturns)>>}
  \cup {<<SeriesEntry(t[1], s1), SeriesEntry(t[2], s2)>> :
          t \in {<<"AAPL", "JPM">>, <<"JPM", "AAPL">>},
          s1 \in ReturnSeries \ {<<>>}, s2 \in ReturnSeries \ {<<>>}}

RiskPositions ==
  {Position("AAPL", "Technology", One, Q(1, 10), Q(1, 10), Undefined),
   Position("AAPL", "Technology", Q(1, 2), Q(1, 10), Q(1, 20), Undefined),
   Position("JPM", "Financials", Q(1, 2), Q(-1, 5), Q(-1, 10), Undefined)}

RiskPositionLists == SeqsUpTo(RiskPositions, MaxPositions)

RiskBenchmarks ==
  {[weights |-> w, returns |-> ("AAPL" :> Q(1, 10)) @@ ("JPM" :> Zero),
    totalReturn |-> Q(1, 20)] :
     w \in {<<Entry("AAPL", One)>>,
            <<Entry("AAPL", Q(1, 4)), Entry("JPM", Q(3, 4))>>}}

\* DEFAULT_RISK_CONFIG has 0.95; a caller may pass any level to the constructor.
ConfidenceLevels == {Q(19, 20), Q(1, 2), Q(1, 4)}

(***************************************************************************)
(* Inputs of the multi-period calculators                                  *)
(***************************************************************************)
MaxPeriods == 2

MaxReturns == 3

\* Returns R with 1 + R a power of 5/4.
GridReturns == {Q(-1, 5), Zero, Q(1, 4), Q(9, 16)}

\* One holding, in the sector the benchmark files it under.
OneHolding(r) == <<Position("AAPL", "Technology", One, r, r, Undefined)>>

OneConstituent(r) ==
  [weights |-> <<Entry("AAPL", One)>>, returns |-> ("AAPL" :> r), totalReturn |-> r]

\* Periods with valid inputs whose portfolio and benchmark returns lie on the
\* grid: four with one holding, one with holdings and constituents in three
\* sectors (portfolio +25%, benchmark 0) and one with neither holdings nor
\* constituents.
PeriodInputs ==
  {[positions |-> OneHolding(Q(1, 4)), benchmark |-> OneConstituent(Zero)],
   [positions |-> OneHolding(Zero), benchmark |-> OneConstituent(Q(1, 4))],
   [positions |-> OneHolding(Q(1, 4)), benchmark |-> OneConstituent(Q(1, 4))],
   [positions |-> OneHolding(Q(-1, 5)), benchmark |-> OneConstituent(Q(1, 4))],
   [positions |->
      <<Position("AAPL", "Technology", Q(1, 2), Q(1, 2), Q(1, 4), Undefined),
        Position("WMT", "Consumer Staples", Q(1, 2), Zero, Zero, Undefined)>>,
    benchmark |->
      [weights |-> <<Entry("AAPL", Q(1, 2)), Entry("JPM", Q(1, 2))>>,
       returns |-> ("AAPL" :> Q(1, 4)) @@ ("JPM" :> Q(-1, 4)),
       totalReturn |-> Zero]],
   [positions |-> <<>>,
    benchmark |-> [weights |-> <<>>, returns |-> <<>>, totalReturn |-> Zero]]}

PeriodLists == SeqsUpTo(PeriodInputs, MaxPeriods)

LinkingMethods == {"Carino", "Menchero", "GRAP"}

(***************************************************************************)
(* Inputs of the factor calculator                                         *)
(***************************************************************************)
FactorExposures ==
  {<<>>,
   ("AAPL" :> <<FactorEntry("industry_tech", One), FactorEntry("Value", Q(1, 2))>>)
   @@ ("JPM" :> <<FactorEntry("sector_fin", One),
                  FactorEntry("style_momentum", Q(-1, 2))>>),
   ("AAPL" :> <<FactorEntry("beta", One)>>),
   ("AAPL" :> <<FactorEntry("value_growth", One)>>)
   @@ ("JPM" :> <<FactorEntry("my_sector_fin", One),
                  FactorEntry("industry_my_sector_fin", Q(1, 2))>>)}

FactorReturns ==
  {<<>>,
   ("rates" :> <<Q(1, 100), Q(3, 100)>>),
   ("rates" :> <<Q(1, 100), Q(3, 100)>>) @@ ("value" :> <<Q(1, 10)>>)
   @@ ("cpi" :> <<>>)}

DefaultFactorConfig ==
  [styleFactors |-> <<"value", "growth", "quality", "momentum", "volatility">>,
   macroFactors |-> <<"rates", "inflation", "fx", "credit">>]

FactorConfigs ==
  {DefaultFactorConfig,
   [styleFactors |-> <<"Momentum">>, macroFactors |-> <<"cpi", "rates">>]}

(***************************************************************************)
(* validateBrinsonAttribution (src/src/types/attribution.ts)               *)
(*                                                                         *)
(* An error message is the sequence of the parts of its template: literal  *)
(* text and the numbers interpolated into it.                              *)
(***************************************************************************)
\* The tolerance 1e-6 of validateBrinsonAttribution, as its denominator.
TolDen == 1000000

Text(s) == [text |-> s]

Number(x) == [number |-> x]

\* Math.abs(a - b) > 1e-6: false when the difference is NaN
Exceeds(a, b) ==
  LET diff == RSub(a, b)
  IN  IF IsFinite(diff) THEN Abs(diff[1]) > diff[2] \div TolDen ELSE ~IsNaN(diff)

\* validateBrinsonAttribution without the check of the three effects
validateBrinsonAttributionNoEffects(attribution) ==
  LET sectorTotalEffect ==
        RSum([i \in 1..Len(attribution.sectorAttribution) |->
                attribution.sectorAttribution[i].totalEffect])
      errors ==
        (IF attribution.period # Undefined
            /\ Exceeds(attribution.portfolioReturn, attribution.period.portfolioReturn)
         THEN <<<<Text("Portfolio return mismatch")>>>> ELSE <<>>)
        \o (IF attribution.period # Undefined
               /\ Exceeds(attribution.benchmarkReturn, attribution.period.benchmarkReturn)
            THEN <<<<Text("Benchmark return mismatch")>>>> ELSE <<>>)
        \o (IF Exceeds(sectorTotalEffect, attribution.activeReturn)
            THEN <<<<Text("Sector attribution sum ("), Number(sectorTotalEffect),
                     Text(") != active return ("), Number(attribution.activeReturn),
                     Text(")")>>>>
            ELSE <<>>)
  IN  [status |-> "ok", isValid |-> errors = <<>>, errors |-> errors]

validateBrinsonAttribution(attribution) ==
  LET totalEffect ==
        RAdd(RAdd(attribution.allocationEffect, attribution.selectionEffect),
             attribution.interactionEffect)
      sectorTotalEffect ==
        RSum([i \in 1..Len(attribution.sectorAttribution) |->
                attribution.sectorAttribution[i].totalEffect])
      errors ==
        (IF attribution.period # Undefined
            /\ Exceeds(attribution.portfolioReturn, attribution.period.portfolioReturn)
         THEN <<<<Text("Portfolio return mismatch")>>>> ELSE <<>>)
        \o (IF attribution.period # Undefined
               /\ Exceeds(attribution.benchmarkReturn, attribution.period.benchmarkReturn)
            THEN <<<<Text("Benchmark return mismatch")>>>> ELSE <<>>)
        \o (IF Exceeds(totalEffect, attribution.activeReturn)
            THEN <<<<Text("Brinson effects sum ("), Number(totalEffect),
                     Text(") != active return ("), Number(attribution.activeReturn),
                     Text(")")>>>>
            ELSE <<>>)
        \o (IF Exceeds(sectorTotalEffect, attribution.activeReturn)
            THEN <<<<Text("Sector attribution sum ("), Number(sectorTotalEffect),
                     Text(") != active return ("), Number(attribution.activeReturn),
                     Text(")")>>>>
            ELSE <<>>)
  IN  [status |-> "ok", isValid |-> errors = <<>>, errors |-> errors]

\* String.prototype.includes, for a needle that lies within one literal part
includes(message, needle) ==
  \E i \in 1..Len(message) :
     /\ "text" \in DOMAIN message[i]
     /\ \E k \in 1..(Len(message[i].text) - Len(needle) + 1) :
           SubSeq(message[i].text, k, k + Len(needle) - 1) = needle

(***************************************************************************)
(* Inputs of validateBrinsonAttribution: attributions as a caller (the     *)
(* tests) builds them by hand.                                             *)
(***************************************************************************)
\* A sector bucket with the one field the validation reads.
Bucket(s, e) == [sector |-> s, totalEffect |-> e]

Attributions ==
  {[period |-> p, portfolioReturn |-> Q(2, 25), benchmarkReturn |-> Q(3, 50),
    activeReturn |-> a, allocationEffect |-> e[1], selectionEffect |-> e[2],
    interactionEffect |-> e[3], sectorAttribution |-> s] :
     p \in {Undefined,
            [portfolioReturn |-> Q(2, 25), benchmarkReturn |-> Q(3, 50)],
            [portfolioReturn |-> Q(1, 10), benchmarkReturn |-> Q(3, 50)],
            [portfolioReturn |-> Q(2, 25), benchmarkReturn |-> Q(1, 20)]},
     a \in {Q(1, 50), Zero},
     e \in {<<Q(1, 200), Q(3, 250), Q(3, 1000)>>,     \* sum 0.02
            <<Q(1, 100), Q(1, 100), Q(1, 100)>>,      \* sum 0.03
            <<Zero, Zero, Zero>>,
            <<Q(1, 50), Zero, Q(1, TolDen)>>,         \* 0.02 + 1e-6
            <<Q(1, 50), Zero, Q(2, TolDen)>>,         \* 0.02 + 2e-6
            <<NaN, Zero, Zero>>},
     s \in {<<>>,
            <<Bucket("Technology", Q(1, 50))>>,
            <<Bucket("Technology", Q(1, 100)), Bucket("Financials", Q(1, 100))>>,
            <<Bucket("Technology", Q(1, 100))>>}}

(***************************************************************************)
(* L1 orchestration: Guardrails (src/src/l1_orchestration/guardrails.ts)   *)
(*                                                                         *)
(* A string of the program is the sequence of its characters: an ASCII     *)
(* character is the string of that character, a line feed is "LF", and any *)
(* other character is named by its code point ("U+98CE").  The originals   *)
(* are quoted in the comments.                                             *)
(***************************************************************************)
Chars(s) == [i \in 1..Len(s) |-> SubSeq(s, i, i)]

DigitChars == {"0", "1", "2", "3", "4", "5", "6", "7", "8", "9"}

\* String.prototype.includes on strings as character sequences
TextIncludes(text, needle) ==
  \E i \in 0..(Len(text) - Len(needle)) :
     SubSeq(text, i + 1, i + Len(needle)) = needle

\* The index after the longest run of characters of a set that starts at i.
RECURSIVE RunEnd(_, _, _)
RunEnd(text, i, set) ==
  IF i <= Len(text) /\ text[i] \in set THEN RunEnd(text, i + 1, set) ELSE i

\* One match of /[-+]?[\d,]+(\.\d+)?%?/ at index i: the index after it, or 0
\* when the expression does not match there.  Every quantifier is greedy and
\* none has to give characters back.
MatchEnd(text, i) ==
  LET AfterFraction(e) ==
        IF e <= Len(text) /\ text[e] = "." /\ RunEnd(text, e + 1, DigitChars) > e + 1
        THEN RunEnd(text, e + 1, DigitChars)
        ELSE e
      AfterPercent(f) == IF f <= Len(text) /\ text[f] = "%" THEN f + 1 ELSE f
      From(s) ==
        IF RunEnd(text, s, DigitChars \cup {","}) > s
        THEN AfterPercent(AfterFraction(RunEnd(text, s, DigitChars \cup {","})))
        ELSE 0
  IN  From(IF text[i] \in {"-", "+"} THEN i + 1 ELSE i)

\* text.match(regex) with the g flag: the matches from left to right, each
\* search resuming after the previous match.
RECURSIVE MatchesFrom(_, _)
MatchesFrom(text, i) ==
  IF i > Len(text) THEN <<>>
  ELSE IF MatchEnd(text, i) = 0 THEN MatchesFrom(text, i + 1)
  ELSE <<SubSeq(text, i, MatchEnd(text, i) - 1)>> \o MatchesFrom(text, MatchEnd(text, i))

\* String.prototype.replace(ch, ''): without the first occurrence of ch
ReplaceFirst(text, ch) ==
  IF \E i \in 1..Len(text) : text[i] = ch
  THEN LET first == CHOOSE i \in 1..Len(text) :
                      text[i] = ch /\ \A j \in 1..(i - 1) : text[j] # ch
       IN  SubSeq(text, 1, first - 1) \o SubSeq(text, first + 1, Len(text))
  ELSE text

\* String.prototype.replace(/,/g, '')
RemoveCommas(text) == SelectSeq(text, LAMBDA c : c # ",")

DigitValue(c) == CHOOSE n \in 0..9 : Chars("0123456789")[n + 1] = c

RECURSIVE DigitsValue(_)
DigitsValue(digits) ==
  IF digits = <<>> THEN 0
  ELSE 10 * DigitsValue(SubSeq(digits, 1, Len(digits) - 1))
       + DigitValue(digits[Len(digits)])

\* parseFloat of a string without leading white space, exponent or
\* "Infinity": an optional sign, digits, an optional point and digits; what
\* follows is ignored, and without any digit the result is NaN.
parseFloat(s) ==
  LET FracEnd(b) ==
        IF b <= Len(s) /\ s[b] = "." THEN RunEnd(s, b + 1, DigitChars) ELSE b
      Parse(a) ==
        LET b == RunEnd(s, a, DigitChars)
        IN  IF SubSeq(s, a, b - 1) = <<>> /\ SubSeq(s, b + 1, FracEnd(b) - 1) = <<>>
            THEN NaN
            ELSE Q((IF s[1] = "-" THEN -1 ELSE 1)
                   * DigitsValue(SubSeq(s, a, b - 1) \o SubSeq(s, b + 1, FracEnd(b) - 1)),
                   10 ^ Len(SubSeq(s, b + 1, FracEnd(b) - 1)))
  IN  IF s = <<>> THEN NaN
      ELSE Parse(IF s[1] \in {"-", "+"} THEN 2 ELSE 1)

RECURSIVE IntegerToChars(_)
IntegerToChars(n) ==
  IF n < 10 THEN <<Chars("0123456789")[n + 1]>>
  ELSE IntegerToChars(n \div 10) \o <<Chars("0123456789")[(n % 10) + 1]>>

\* k digits of n, with leading zeros
PaddedDigits(n, k) ==
  [i \in 1..(k - Len(IntegerToChars(n))) |-> "0"] \o IntegerToChars(n)

\* String(x) of a number with at most 4 decimals and no exponent:
\* the shortest decimal that denotes it.
NumberToString(x) ==
  IF IsNaN(x) THEN Chars("NaN")
  ELSE IF x = PosInf THEN Chars("Infinity")
  ELSE IF x = NegInf THEN Chars("-Infinity")
  ELSE LET k == CHOOSE k \in 0..4 :
                  /\ (Abs(x[1]) * 10 ^ k) % x[2] = 0
                  /\ \A j \in 0..(k - 1) : (Abs(x[1]) * 10 ^ j) % x[2] # 0
           Digits(scaled) ==
             IntegerToChars(scaled \div 10 ^ k)
             \o (IF k = 0 THEN <<>> ELSE <<".">> \o PaddedDigits(scaled % 10 ^ k, k))
       IN  (IF x[1] < 0 THEN <<"-">> ELSE <<>>)
           \o Digits((Abs(x[1]) * 10 ^ k) \div x[2])

\* Number.prototype.toFixed(2): rounded to hundredths, halves away from zero
toFixed2(x) ==
  IF IsNaN(x) THEN Chars("NaN")
  ELSE IF x = PosInf THEN Chars("Infinity")
  ELSE IF x = NegInf THEN Chars("-Infinity")
  ELSE LET Digits(scaled) ==
             IntegerToChars(scaled \div 100) \o <<".">> \o PaddedDigits(scaled % 100, 2)
       IN  (IF x[1] < 0 THEN <<"-">> ELSE <<>>)
           \o Digits((200 * Abs(x[1]) + x[2]) \div (2 * x[2]))

\* ['内幕', '诈骗', '非法']: inside information, fraud, illegal
FORBIDDEN_KEYWORDS ==
  <<<<"U+5185", "U+5E55">>, <<"U+8BC8", "U+9A97">>, <<"U+975E", "U+6CD5">>>>

\* '检测到敏感词: ': "sensitive word detected: "
SensitiveWordPrefix ==
  <<"U+68C0", "U+6D4B", "U+5230", "U+654F", "U+611F", "U+8BCD", ":", " ">>

\* Mutant of validateInput: only the first keyword is looked for.
validateInputFirstKeyword(userQuery) ==
  IF TextIncludes(userQuery, FORBIDDEN_KEYWORDS[1])
  THEN [isSafe |-> FALSE, message |-> SensitiveWordPrefix \o FORBIDDEN_KEYWORDS[1]]
  ELSE [isSafe |-> TRUE, message |-> <<>>]

validateInput(userQuery) ==
  LET found == SelectSeq(FORBIDDEN_KEYWORDS, LAMBDA keyword : TextIncludes(userQuery, keyword))
  IN  IF found # <<>>
      THEN [isSafe |-> FALSE, message |-> SensitiveWordPrefix \o found[1]]
      ELSE [isSafe |-> TRUE, message |-> <<>>]

\* '风险提示': risk notice
RiskNotice == <<"U+98CE", "U+9669", "U+63D0", "U+793A">>

\* '仅供参考': for reference only
ForReferenceOnly == <<"U+4EC5", "U+4F9B", "U+53C2", "U+8003">>

requiredDisclaimers == <<RiskNotice, ForReferenceOnly>>

\* '\n\n【风险提示】市场有风险，投资需谨慎。本报告仅供参考，不构成投资建议。'
DefaultDisclaimer ==
  <<"LF", "LF", "U+3010", "U+98CE", "U+9669", "U+63D0", "U+793A", "U+3011",
    "U+5E02", "U+573A", "U+6709", "U+98CE", "U+9669", "U+FF0C", "U+6295",
    "U+8D44", "U+9700", "U+8C28", "U+614E", "U+3002", "U+672C", "U+62A5",
    "U+544A", "U+4EC5", "U+4F9B", "U+53C2", "U+8003", "U+FF0C", "U+4E0D",
    "U+6784", "U+6210", "U+6295", "U+8D44", "U+5EFA", "U+8BAE", "U+3002">>

validateOutput(responseText) ==
  IF \E i \in 1..Len(requiredDisclaimers) :
       TextIncludes(responseText, requiredDisclaimers[i])
  THEN responseText
  ELSE responseText \o DefaultDisclaimer

\* the default tolerance of containsNumber
Tolerance == Q(1, 20)

containsNumber(text, expected) ==
  \E i \in 1..Len(MatchesFrom(text, 1)) :
     LET Close(cleanVal) ==
           /\ ~IsNaN(cleanVal)
           /\ RLt(RAbs(RSub(cleanVal, expected)),
                  RAdd(RAbs(RMul(expected, Tolerance)), Q(1, 100)))
     IN  Close(parseFloat(ReplaceFirst(RemoveCommas(MatchesFrom(text, 1)[i]), "%")))

\* '❌': the mark of a failed check
CrossMark == <<"U+274C">>

\* '总盈亏': total profit and loss
TotalPnlWords == <<"U+603B", "U+76C8", "U+4E8F">>

verifyL2Consistency(responseText, expectedPnl, expectedReturn, pnlDetails) ==
  LET mentionedCount ==
        Cardinality({i \in 1..Len(pnlDetails) :
                       i <= 3 /\ TextIncludes(responseText, pnlDetails[i].ticker)})
      issues ==
        <<\* 1. the total profit and loss
          IF ~containsNumber(responseText, expectedPnl)
          THEN IF ~TextIncludes(responseText, NumberToString(expectedPnl))
               THEN \* '❌ 缺少或错误的总盈亏数值 ${expectedPnl}'
                    <<"U+274C", " ", "U+7F3A", "U+5C11", "U+6216",
                      "U+9519", "U+8BEF", "U+7684", "U+603B", "U+76C8",
                      "U+4E8F", "U+6570", "U+503C", " ">>
                    \o NumberToString(expectedPnl)
               ELSE \* '✅ 包含正确的总盈亏数值 ${expectedPnl} (文本匹配)'
                    <<"U+2705", " ", "U+5305", "U+542B", "U+6B63",
                      "U+786E", "U+7684", "U+603B", "U+76C8", "U+4E8F",
                      "U+6570", "U+503C", " ">>
                    \o NumberToString(expectedPnl)
                    \o <<" ", "(", "U+6587", "U+672C", "U+5339", "U+914D", ")">>
          ELSE \* '✅ 包含正确的总盈亏数值 ${expectedPnl} (数值匹配)'
                    <<"U+2705", " ", "U+5305", "U+542B", "U+6B63",
                      "U+786E", "U+7684", "U+603B", "U+76C8", "U+4E8F",
                      "U+6570", "U+503C", " ">>
               \o NumberToString(expectedPnl)
               \o <<" ", "(", "U+6570", "U+503C", "U+5339", "U+914D", ")">>,
          \* 2. the total return rate
          IF ~containsNumber(responseText, parseFloat(ReplaceFirst(expectedReturn, "%")))
          THEN IF ~TextIncludes(responseText, expectedReturn)
               THEN \* '❌ 缺少或错误的收益率 ${expectedReturn}'
                    <<"U+274C", " ", "U+7F3A", "U+5C11", "U+6216",
                      "U+9519", "U+8BEF", "U+7684", "U+6536", "U+76CA",
                      "U+7387", " ">>
                    \o expectedReturn
               ELSE \* '✅ 包含正确的收益率 ${expectedReturn} (文本匹配)'
                    <<"U+2705", " ", "U+5305", "U+542B", "U+6B63",
                      "U+786E", "U+7684", "U+6536", "U+76CA", "U+7387",
                      " ">>
                    \o expectedReturn
                    \o <<" ", "(", "U+6587", "U+672C", "U+5339", "U+914D", ")">>
          ELSE \* '✅ 包含正确的收益率 ${expectedReturn} (数值匹配)'
                    <<"U+2705", " ", "U+5305", "U+542B", "U+6B63",
                      "U+786E", "U+7684", "U+6536", "U+76CA", "U+7387",
                      " ">>
               \o expectedReturn
               \o <<" ", "(", "U+6570", "U+503C", "U+5339", "U+914D", ")">>,
          \* 3. the holdings mentioned, among the first three
          IF mentionedCount = 0
          THEN \* '❌ 未提及任何具体持仓的盈亏情况'
                    <<"U+274C", " ", "U+672A", "U+63D0", "U+53CA",
                      "U+4EFB", "U+4F55", "U+5177", "U+4F53", "U+6301",
                      "U+4ED3", "U+7684", "U+76C8", "U+4E8F", "U+60C5",
                      "U+51B5">>
          ELSE \* '✅ 提及了 ${mentionedCount} 个主要持仓'
                    <<"U+2705", " ", "U+63D0", "U+53CA", "U+4E86", " ">>
               \o IntegerToChars(mentionedCount)
               \o <<" ", "U+4E2A", "U+4E3B", "U+8981", "U+6301", "U+4ED3">>,
          \* 4. the risk notice
          IF ~TextIncludes(responseText, RiskNotice)
          THEN \* '❌ 缺少风险提示'
                    <<"U+274C", " ", "U+7F3A", "U+5C11", "U+98CE",
                      "U+9669", "U+63D0", "U+793A">>
          ELSE \* '✅ 包含风险提示'
                    <<"U+2705", " ", "U+5305", "U+542B", "U+98CE",
                      "U+9669", "U+63D0", "U+793A">>>>
  IN  [status |-> "ok",
       isConsistent |-> ~\E i \in 1..Len(issues) : TextIncludes(issues[i], CrossMark),
       issues |-> issues]

(***************************************************************************)
(* L1 orchestration: Dispatcher (src/src/l1_orchestration/dispatcher.ts)   *)
(*                                                                         *)
(* handleRequest is an async method: it runs from its first statement to   *)
(* the first await, and from each await to the next or to its return, and  *)
(* each such piece is one action.  effectLog is the sequence of the calls  *)
(* it has made on its collaborators so far; frame holds its local          *)
(* variables while it is suspended.  What the database, the market feed    *)
(* and the language model answer is chosen by the environment.  The prompt *)
(* text (PromptFactory) and the risk figures computed from the Math.random *)
(* return series reach only the prompt and are not represented.            *)
(***************************************************************************)
Holding(t, c, q) == [ticker |-> t, cost |-> c, quantity |-> q]

Effect(t, a) == [target |-> t, argument |-> a]

\* const market = currentMap.get(h.ticker): the last result with the ticker
\* among the results that are objects with a ticker
MarketOf(marketResults, ticker) ==
  LET hits == {i \in 1..Len(marketResults) :
                 /\ marketResults[i] # Undefined
                 /\ marketResults[i].ticker = ticker}
  IN  IF hits = {} THEN Undefined
      ELSE marketResults[CHOOSE i \in hits : \A j \in hits : j <= i]

\* market?.current_price || holding.cost
CurrentPrice(holding, marketResults) ==
  LET Price(market) ==
        IF market = Undefined THEN holding.cost
        ELSE IF market.current_price = Zero \/ IsNaN(market.current_price)
        THEN holding.cost
        ELSE market.current_price
  IN  Price(MarketOf(marketResults, holding.ticker))

calculatePortfolioPositions(holdings, marketResults) ==
  LET totalCostValue ==
        RSum([i \in 1..Len(holdings) |-> RMul(holdings[i].cost, holdings[i].quantity)])
      PositionOf(holding, weight, return) ==
        Position(holding.ticker, "", weight, return, RMul(weight, return), weight)
  IN  [i \in 1..Len(holdings) |->
         PositionOf(holdings[i],
                    IF RLt(Zero, totalCostValue)
                    THEN RDiv(RMul(holdings[i].cost, holdings[i].quantity), totalCostValue)
                    ELSE Zero,
                    RDiv(RSub(CurrentPrice(holdings[i], marketResults), holdings[i].cost),
                         holdings[i].cost))]

createDummyBenchmark(tickers) ==
  [weights |-> [i \in 1..Len(tickers) |-> Entry(tickers[i], Q(1, Len(tickers)))],
   returns |-> [t \in {tickers[i] : i \in 1..Len(tickers)} |-> Q(1, 20)],
   totalReturn |-> Q(1, 20)]

\* pnlData after the details were refined from the holdings
PnlDataOf(holdings, marketResults, brinsonResult) ==
  [total_pnl |->
     RSum([i \in 1..Len(holdings) |->
             RMul(RSub(CurrentPrice(holdings[i], marketResults), holdings[i].cost),
                  holdings[i].quantity)]),
   total_return_rate |->
     toFixed2(RMul(brinsonResult.portfolioReturn, Q(100, 1))) \o <<"%">>,
   details |->
     [i \in 1..Len(holdings) |->
        [ticker |-> Chars(holdings[i].ticker),
         pnl |-> RMul(RSub(CurrentPrice(holdings[i], marketResults), holdings[i].cost),
                      holdings[i].quantity)]]]

\* `系统内部错误: 归因计算失败 (${error.message})`
InternalErrorMessage(message) ==
  <<"U+7CFB", "U+7EDF", "U+5185", "U+90E8", "U+9519", "U+8BEF", ":", " ",
    "U+5F52", "U+56E0", "U+8BA1", "U+7B97", "U+5931", "U+8D25", " ", "(">>
  \o Chars(message) \o <<")">>

\* '\n\n---\n**系统提示**: AI 回复已通过 L2 数据验证，但请注意核实数值准确性。'
SystemNotice ==
  <<"LF", "LF", "-", "-", "-", "LF", "*", "*", "U+7CFB", "U+7EDF",
    "U+63D0", "U+793A", "*", "*", ":", " ", "A", "I", " ", "U+56DE",
    "U+590D", "U+5DF2", "U+901A", "U+8FC7", " ", "L", "2", " ", "U+6570",
    "U+636E", "U+9A8C", "U+8BC1", "U+FF0C", "U+4F46", "U+8BF7", "U+6CE8",
    "U+610F", "U+6838", "U+5B9E", "U+6570", "U+503C", "U+51C6", "U+786E",
    "U+6027", "U+3002">>

\* The string handleRequest returns once the model has answered.
FinalResponse(rawResponse, pnlData) ==
  validateOutput(rawResponse)
  \o (IF verifyL2Consistency(rawResponse, pnlData.total_pnl,
                             pnlData.total_return_rate, pnlData.details).isConsistent
      THEN <<>> ELSE SystemNotice)

(***************************************************************************)
(* Calculator instances and the calls on them                              *)
(***************************************************************************)
DefaultConfig ==
  [brinson |-> [linkingMethod |-> "Carino"],
   risk |-> [confidenceLevel |-> Q(19, 20)],
   multiPeriod |-> [driftThreshold |-> Q(1, 20),
                    regimeChangeThreshold |-> Q(1, 10),
                    includeGeometricAttribution |-> TRUE,
                    includeDriftAnalysis |-> TRUE],
   factor |-> DefaultFactorConfig]

\* The configurations a client constructs the calculator it calls with; the
\* other calculators keep their defaults.
ConfigsFor(c) ==
  IF c.op = "RiskAttributionCalculator.calculateAttribution"
  THEN {[DefaultConfig EXCEPT !.risk.confidenceLevel = l] : l \in ConfidenceLevels}
  ELSE IF c.op = "calculateMultiPeriodAttribution"
  THEN {[DefaultConfig EXCEPT !.brinson.linkingMethod = m] : m \in LinkingMethods}
  ELSE IF c.op = "MultiPeriodAttributionCalculator.calculateAttribution"
  THEN {[DefaultConfig EXCEPT !.multiPeriod.includeGeometricAttribution = g,
                              !.multiPeriod.includeDriftAnalysis = d] :
          g \in BOOLEAN, d \in BOOLEAN}
  ELSE IF c.op = "FactorAttributionCalculator.calculateAttribution"
  THEN {[DefaultConfig EXCEPT !.factor = f] : f \in FactorConfigs}
  ELSE IF c.op = "detectRegimeChanges"
  THEN {[DefaultConfig EXCEPT !.multiPeriod.regimeChangeThreshold = h] :
          h \in {Q(1, 10), Q(1, 4)}}
  ELSE {DefaultConfig}

(***************************************************************************)
(* InMemoryQueue (src/unnamed/part_020)                                    *)
(*                                                                         *)
(* queue, processing and handler are the fields of the instance.  A job is *)
(* known by the place of its add() among the calls of add(): the id the    *)
(* code draws from Math.random is not modelled.  A handler is known by     *)
(* what a call of it does: "async" returns a promise that resolves or      *)
(* rejects later, "throws" throws before it returns a promise.             *)
(* handlerCalls is the list of the calls made on the handler, each with    *)
(* its job and its outcome so far; suspended holds the places in that list *)
(* of the calls whose processNext waits at its await.  adds is the list of *)
(* the calls of add(), each with what the caller could see of the instance *)
(* at that moment.                                                         *)
(***************************************************************************)
MaxJobs == 3

NoHandler == "undefined"

Handlers == {"async", "throws"}

Job(id) == [id |-> id]

\* The instance after its constructor, before any call.
QueueIdle ==
  /\ queue = <<>>
  /\ processing = FALSE
  /\ handler = NoHandler
  /\ handlerCalls = <<>>
  /\ suspended = {}
  /\ adds = <<>>

\* The instance as one value: the fields and the calls made on the handler.
QueueState ==
  [queue |-> queue, processing |-> processing, handler |-> handler,
   handlerCalls |-> handlerCalls, suspended |-> suspended]

\* processNext without the test of the processing flag.
processNextUnguarded(q) ==
  IF q.queue = <<>> \/ q.handler = NoHandler THEN q
  ELSE IF q.handler = "throws"
  THEN [q EXCEPT !.queue = <<>>,
                 !.handlerCalls =
                   @ \o [i \in 1..Len(q.queue) |->
                           [job |-> q.queue[i], outcome |-> "threw"]]]
  ELSE [q EXCEPT !.processing = TRUE,
                 !.queue = Tail(@),
                 !.handlerCalls = Append(@, [job |-> Head(q.queue), outcome |-> "pending"]),
                 !.suspended = @ \cup {Len(q.handlerCalls) + 1}]

\* processNext taking the job added last (pop) where the code takes the job
\* added first (shift).
processNextFromBack(q) ==
  IF q.processing \/ q.queue = <<>> \/ q.handler = NoHandler THEN q
  ELSE IF q.handler = "throws"
  THEN [q EXCEPT !.queue = <<>>,
                 !.handlerCalls =
                   @ \o [i \in 1..Len(q.queue) |->
                           [job |-> q.queue[Len(q.queue) + 1 - i], outcome |-> "threw"]]]
  ELSE [q EXCEPT !.processing = TRUE,
                 !.queue = SubSeq(@, 1, Len(@) - 1),
                 !.handlerCalls =
                   Append(@, [job |-> q.queue[Len(q.queue)], outcome |-> "pending"]),
                 !.suspended = @ \cup {Len(q.handlerCalls) + 1}]

\* processNext, up to its await.  With a handler that returns a promise it
\* sets the flag, shifts the first job, calls the handler and waits.  With a
\* handler that throws, the catch block runs at once, the flag is cleared and
\* processNext calls itself: the jobs of the queue are passed to the handler
\* one after the other, first to last, within the same call.
processNext(q) ==
  IF q.processing \/ q.queue = <<>> \/ q.handler = NoHandler THEN q
  ELSE IF q.handler = "throws"
  THEN [q EXCEPT !.queue = <<>>,
                 !.handlerCalls =
                   @ \o [i \in 1..Len(q.queue) |->
                           [job |-> q.queue[i], outcome |-> "threw"]]]
  ELSE [q EXCEPT !.processing = TRUE,
                 !.queue = Tail(@),
                 !.handlerCalls = Append(@, [job |-> Head(q.queue), outcome |-> "pending"]),
                 !.suspended = @ \cup {Len(q.handlerCalls) + 1}]

\* The rest of processNext after its await, with the flag cleared and no
\* further call of processNext.
resumeWithoutNext(q, k) ==
  [q EXCEPT !.processing = FALSE, !.suspended = @ \ {k}]

\* The rest of processNext after the await of the k-th call of the handler:
\* the outcome is logged, the flag is cleared, processNext is called again.
resume(q, k) ==
  processNext([q EXCEPT !.processing = FALSE, !.suspended = @ \ {k}])

\* The fields take the values of q.
Becomes(q) ==
  /\ queue' = q.queue
  /\ processing' = q.processing
  /\ handler' = q.handler
  /\ handlerCalls' = q.handlerCalls
  /\ suspended' = q.suspended

NoResult == [status |-> "none"]

NoFrame == <<>>

SinglePeriodCalls ==
  {[op |-> "calculateSinglePeriodAttribution", positions |-> p, benchmark |-> b] :
     p \in PositionLists, b \in Benchmarks}

AggregateCalls ==
  {[op |-> "aggregateBySector", positions |-> p, benchmark |-> b, sectors |-> s] :
     p \in PositionLists, b \in {x \in Benchmarks : ConsistentBenchmark(x)},
     s \in SectorLookups}

RiskCalls ==
  {[op |-> "RiskAttributionCalculator.calculateAttribution",
    positions |-> p, benchmark |-> b, returns |-> r] :
     p \in RiskPositionLists, b \in RiskBenchmarks, r \in HistoricalReturns}

MultiPeriodCalls ==
  {[op |-> o, periods |-> p] :
     o \in {"calculateMultiPeriodAttribution",
            "MultiPeriodAttributionCalculator.calculateAttribution"},
     p \in PeriodLists}

\* Holdings with a weight or a return that is not a finite number.
NonFinitePositionLists ==
  {<<Position("AAPL", "Technology", NaN, Q(1, 10), NaN, Undefined)>>,
   <<Position("AAPL", "Technology", One, PosInf, PosInf, Undefined)>>}

FactorCalls ==
  {[op |-> "FactorAttributionCalculator.calculateAttribution",
    positions |-> p, factorReturns |-> r, factorExposures |-> e] :
     p \in RiskPositionLists \cup NonFinitePositionLists,
     r \in FactorReturns, e \in FactorExposures}

\* Periods for detectRegimeChanges, by the two effects it reads: jumps of 0,
\* 0.1 (the default threshold itself), 0.2 and 0.3 in allocation, of 0 and 0.3
\* in selection.
RegimeCalls ==
  {[op |-> "detectRegimeChanges", periods |-> p] :
     p \in SeqsUpTo({[allocationEffect |-> a, selectionEffect |-> e] :
                       a \in {Zero, Q(1, 10), Q(3, 10)}, e \in {Zero, Q(3, 10)}},
                    MaxPeriods + 1)}

\* Effect series for calculateConsistency: a loss, no effect and a gain.
ConsistencyCalls ==
  {[op |-> "calculateConsistency", effects |-> e] :
     e \in SeqsUpTo({Q(-1, 5), Zero, Q(1, 4)}, MaxReturns)}

ChainLinkCalls ==
  {[op |-> "chainLinkReturns", returns |-> r] : r \in SeqsUpTo(GridReturns, MaxReturns)}

ValidateCalls ==
  {[op |-> "validateBrinsonAttribution", attribution |-> a] : a \in Attributions}

\* A call returns to the client, who may make it once more.
Return(value) ==
  /\ pc \in {"ready", "returned"}
  /\ pc' = IF pc = "ready" THEN "returned" ELSE "returned again"
  /\ result' = value

\* BrinsonAttributionCalculator.calculateSinglePeriodAttribution
SinglePeriod ==
  /\ call.op = "calculateSinglePeriodAttribution"
  /\ Return(calculateSinglePeriodAttribution(call.positions, call.benchmark))
  /\ UNCHANGED <<queueVars, config, call, effectLog, frame>>

\* aggregateBySector
AggregateBySector ==
  /\ call.op = "aggregateBySector"
  /\ Return([status |-> "ok",
             sectorAttribution |->
               aggregateBySector(call.positions, call.benchmark, call.sectors)])
  /\ UNCHANGED <<queueVars, config, call, effectLog, frame>>

\* RiskAttributionCalculator.calculateAttribution
RiskAttribution ==
  /\ call.op = "RiskAttributionCalculator.calculateAttribution"
  /\ Return(RiskCalculateAttribution(config.risk, call.positions, call.benchmark,
                                     call.returns))
  /\ UNCHANGED <<queueVars, config, call, effectLog, frame>>

\* BrinsonAttributionCalculator.calculateMultiPeriodAttribution
MultiPeriodBrinson ==
  /\ call.op = "calculateMultiPeriodAttribution"
  /\ Return(calculateMultiPeriodAttribution(config.brinson, call.periods))
  /\ UNCHANGED <<queueVars, config, call, effectLog, frame>>

\* MultiPeriodAttributionCalculator.calculateAttribution, given a Brinson
\* calculator
MultiPeriodAttribution ==
  /\ call.op = "MultiPeriodAttributionCalculator.calculateAttribution"
  /\ Return(MultiPeriodCalculateAttribution(config.multiPeriod, call.periods))
  /\ UNCHANGED <<queueVars, config, call, effectLog, frame>>

\* FactorAttributionCalculator.calculateAttribution
FactorAttribution ==
  /\ call.op = "FactorAttributionCalculator.calculateAttribution"
  /\ Return(FactorCalculateAttribution(config.factor, call.positions,
                                       call.factorReturns, call.factorExposures))
  /\ UNCHANGED <<queueVars, config, call, effectLog, frame>>

\* chainLinkReturns
ChainLink ==
  /\ call.op = "chainLinkReturns"
  /\ Return([status |-> "ok", value |-> chainLinkReturns(call.returns)])
  /\ UNCHANGED <<queueVars, config, call, effectLog, frame>>

\* validateBrinsonAttribution
ValidateBrinson ==
  /\ call.op = "validateBrinsonAttribution"
  /\ Return(validateBrinsonAttribution(call.attribution))
  /\ UNCHANGED <<queueVars, config, call, effectLog, frame>>

\* calculateDriftAnalysis calls calculateConsistency on the allocation effects
\* and on the selection effects of the periods.
Consistency ==
  /\ call.op = "calculateConsistency"
  /\ Return([status |-> "ok", value |-> calculateConsistency(call.effects)])
  /\ UNCHANGED <<queueVars, config, call, effectLog, frame>>

\* calculateDriftAnalysis calls detectRegimeChanges on the periods, with the
\* threshold of the calculator's configuration.
RegimeChanges ==
  /\ call.op = "detectRegimeChanges"
  /\ Return([status |-> "ok",
             value |-> detectRegimeChanges(call.periods,
                                           config.multiPeriod.regimeChangeThreshold)])
  /\ UNCHANGED <<queueVars, config, call, effectLog, frame>>

Calls ==
  SinglePeriodCalls \cup AggregateCalls \cup RiskCalls \cup MultiPeriodCalls
  \cup FactorCalls \cup ChainLinkCalls \cup ValidateCalls \cup ConsistencyCalls
  \cup RegimeCalls

Init ==
  /\ call \in Calls
  /\ config \in ConfigsFor(call)
  /\ result = NoResult
  /\ pc = "ready"
  /\ effectLog = <<>>
  /\ frame = NoFrame
  /\ QueueIdle

Next ==
  \/ SinglePeriod
  \/ AggregateBySector
  \/ RiskAttribution
  \/ MultiPeriodBrinson
  \/ MultiPeriodAttribution
  \/ FactorAttribution
  \/ ChainLink
  \/ ValidateBrinson
  \/ Consistency
  \/ RegimeChanges

Spec == Init /\ [][Next]_vars

(***************************************************************************)
(* Inputs of the L1 orchestration                                          *)
(***************************************************************************)
\* '分析我的持仓', '内幕消息', '这是诈骗吗', '有非法内幕吗'
Queries ==
  {<<"U+5206", "U+6790", "U+6211", "U+7684", "U+6301", "U+4ED3">>,
   <<"U+5185", "U+5E55", "U+6D88", "U+606F">>,
   <<"U+8FD9", "U+662F", "U+8BC8", "U+9A97", "U+5417">>,
   <<"U+6709", "U+975E", "U+6CD5", "U+5185", "U+5E55", "U+5417">>}

\* What UserDB.getUserHoldings answers.
HoldingLists ==
  {<<>>,
   <<Holding("AAPL", Q(150, 1), Q(10, 1))>>,
   <<Holding("AAPL", Q(150, 1), Q(10, 1)), Holding("BABA", Q(80, 1), Q(50, 1))>>}

\* What getStockPrice resolves to for the holdings, in their order: a price,
\* no price (0), or a result without a ticker.
MarketResults(holdings) ==
  {m \in [1..Len(holdings) ->
            {[ticker |-> t, current_price |-> p] :
               t \in {"", "AAPL", "BABA"}, p \in {Q(165, 1), Zero}}] :
     \A i \in 1..Len(holdings) :
        \/ m[i].ticker = holdings[i].ticker
        \/ m[i].ticker = "" /\ m[i].current_price = Zero}

\* What the response states: the total profit and loss, the return rate, the
\* one holding it mentions with its profit and loss (none: ticker <<>>), and
\* whether it carries a risk notice.
Stated(total, rate, ticker, pnl, notice) ==
  [total |-> total, rate |-> rate, ticker |-> ticker, pnl |-> pnl, notice |-> notice]

\* '总盈亏 ${total}，收益率 ${rate}。主要持仓 ${ticker} 盈亏 ${pnl}。风险提示：有风险。'
RenderResponse(stated) ==
  TotalPnlWords \o <<" ">> \o NumberToString(stated.total)
  \o <<"U+FF0C", "U+6536", "U+76CA", "U+7387", " ">> \o stated.rate \o <<"U+3002">>
  \o (IF stated.ticker = <<>> THEN <<>>
      ELSE <<"U+4E3B", "U+8981", "U+6301", "U+4ED3", " ">> \o stated.ticker
           \o <<" ", "U+76C8", "U+4E8F", " ">> \o NumberToString(stated.pnl) \o <<"U+3002">>)
  \o (IF stated.notice THEN RiskNotice \o <<"U+FF1A", "U+6709", "U+98CE", "U+9669", "U+3002">> ELSE <<>>)

StatedResponses ==
  {Stated(total, rate, mention[1], mention[2], notice) :
     total \in {Q(300, 1), Q(500, 1), Q(30001, 100), Q(1300, 1)},
     rate \in {Chars("15.00%"), Chars("50.00%")},
     mention \in {<<<<>>, Zero>>, <<Chars("AAPL"), Q(100, 1)>>,
                  <<Chars("AAPL"), Q(300, 1)>>},
     notice \in BOOLEAN}

\* The holdings of the tests of verifyL2Consistency.
PnlDetails ==
  <<[ticker |-> Chars("AAPL"), pnl |-> Q(100, 1)],
    [ticker |-> Chars("GOOGL"), pnl |-> Q(200, 1)]>>

VerifyCalls ==
  {[op |-> "Guardrails.verifyL2Consistency", stated |-> s,
    responseText |-> RenderResponse(s), expectedPnl |-> e,
    expectedReturn |-> Chars("15.00%"), pnlDetails |-> PnlDetails] :
     s \in StatedResponses, e \in {Q(300, 1), Q(15, 1)}}

\* '分析报告', '分析报告。风险提示：已包含。', '本报告仅供参考。',
\* '这是分析报告\n风险提示：仅供参考', ''
ResponseTexts ==
  {<<"U+5206", "U+6790", "U+62A5", "U+544A">>,
   <<"U+5206", "U+6790", "U+62A5", "U+544A", "U+3002", "U+98CE", "U+9669", "U+63D0", "U+793A", "U+FF1A", "U+5DF2", "U+5305", "U+542B", "U+3002">>,
   <<"U+672C", "U+62A5", "U+544A", "U+4EC5", "U+4F9B", "U+53C2", "U+8003", "U+3002">>,
   <<"U+8FD9", "U+662F", "U+5206", "U+6790", "U+62A5", "U+544A">> \o <<"LF">> \o <<"U+98CE", "U+9669", "U+63D0", "U+793A", "U+FF1A", "U+4EC5", "U+4F9B", "U+53C2", "U+8003">>,
   <<>>}

ValidateOutputCalls ==
  {[op |-> "Guardrails.validateOutput", responseText |-> t] :
     t \in ResponseTexts \cup {RenderResponse(s) : s \in StatedResponses}}

\* What LLMService.generate resolves to: the report of the test (total 150,
\* return 10.00%), the same with a wrong total, a report without figures and
\* an error string of the service.
LlmResponses ==
  {RenderResponse(Stated(Q(150, 1), Chars("10.00%"), Chars("AAPL"), Q(150, 1), TRUE)),
   RenderResponse(Stated(Q(500, 1), Chars("10.00%"), Chars("AAPL"), Q(150, 1), FALSE)),
   <<"U+5206", "U+6790", "U+62A5", "U+544A">>,
   Chars("[Error] API Key not found.")}

HandleRequestCalls ==
  {[op |-> "Dispatcher.handleRequest", userId |-> "user1", query |-> q] :
     q \in Queries}

(***************************************************************************)
(* The L1 orchestration: one request to a Dispatcher, or one call of a     *)
(* static method of Guardrails.                                            *)
(***************************************************************************)
\* handleRequest up to the await of the prices
HandleRequest ==
  /\ call.op = "Dispatcher.handleRequest"
  /\ pc = "ready"
  /\ IF ~validateInput(call.query).isSafe
     THEN /\ result' = [status |-> "ok", value |-> validateInput(call.query).message]
          /\ pc' = "returned"
          /\ UNCHANGED <<effectLog, frame>>
     ELSE /\ effectLog' =
               effectLog \o <<Effect("UserDB.getUserHoldings", call.userId)>>
               \o [i \in 1..Len(config.userDB) |->
                     Effect("getStockPrice", config.userDB[i].ticker)]
          /\ frame' = [holdings |-> config.userDB]
          /\ pc' = "awaiting prices"
          /\ UNCHANGED result
  /\ UNCHANGED <<queueVars, config, call>>

\* from the prices to the await of the search: positions, benchmark, Brinson
\* attribution (its error ends the request), pnlData, risk attribution
PricesResolved ==
  /\ call.op = "Dispatcher.handleRequest"
  /\ pc = "awaiting prices"
  /\ \E marketResults \in MarketResults(frame.holdings) :
        LET Continue(brinsonResult) ==
              IF brinsonResult.status = "threw"
              THEN /\ effectLog' =
                        effectLog
                        \o <<Effect("BrinsonAttributionCalculator.calculateSinglePeriodAttribution", "")>>
                   /\ result' = [status |-> "ok",
                                 value |-> InternalErrorMessage(brinsonResult.error)]
                   /\ pc' = "returned"
                   /\ UNCHANGED frame
              ELSE /\ effectLog' =
                        effectLog
                        \o <<Effect("BrinsonAttributionCalculator.calculateSinglePeriodAttribution", ""),
                             Effect("RiskAttributionCalculator.calculateAttribution", ""),
                             Effect("SearchEngine.search", "")>>
                   /\ frame' = [pnlData |-> PnlDataOf(frame.holdings, marketResults,
                                                      brinsonResult)]
                   /\ pc' = "awaiting search"
                   /\ UNCHANGED result
        IN  Continue(calculateSinglePeriodAttribution(
                       calculatePortfolioPositions(frame.holdings, marketResults),
                       createDummyBenchmark([i \in 1..Len(frame.holdings) |->
                                               frame.holdings[i].ticker])))
  /\ UNCHANGED <<queueVars, config, call>>

\* from the search results to the await of the language model
SearchResolved ==
  /\ call.op = "Dispatcher.handleRequest"
  /\ pc = "awaiting search"
  /\ effectLog' = effectLog \o <<Effect("LLMService.generate", "")>>
  /\ pc' = "awaiting generate"
  /\ UNCHANGED <<queueVars, config, call, result, frame>>

\* from the answer of the language model to the return
GenerateResolved ==
  /\ call.op = "Dispatcher.handleRequest"
  /\ pc = "awaiting generate"
  /\ \E rawResponse \in LlmResponses :
        result' = [status |-> "ok", value |-> FinalResponse(rawResponse, frame.pnlData)]
  /\ pc' = "returned"
  /\ UNCHANGED <<queueVars, config, call, effectLog, frame>>

\* Guardrails.validateOutput
ValidateOutput ==
  /\ call.op = "Guardrails.validateOutput"
  /\ Return([status |-> "ok", value |-> validateOutput(call.responseText)])
  /\ UNCHANGED <<queueVars, config, call, effectLog, frame>>

\* Guardrails.verifyL2Consistency
VerifyL2Consistency ==
  /\ call.op = "Guardrails.verifyL2Consistency"
  /\ Return(verifyL2Consistency(call.responseText, call.expectedPnl,
                                call.expectedReturn, call.pnlDetails))
  /\ UNCHANGED <<queueVars, config, call, effectLog, frame>>

\* A dispatcher is constructed over a user database; the static methods of
\* Guardrails use none.
OrchestrationInit ==
  /\ call \in HandleRequestCalls \cup ValidateOutputCalls \cup VerifyCalls
  /\ config \in IF call.op = "Dispatcher.handleRequest"
                THEN {[userDB |-> h] : h \in HoldingLists}
                ELSE {[userDB |-> <<>>]}
  /\ result = NoResult
  /\ pc = "ready"
  /\ effectLog = <<>>
  /\ frame = NoFrame
  /\ QueueIdle

OrchestrationNext ==
  \/ HandleRequest
  \/ PricesResolved
  \/ SearchResolved
  \/ GenerateResolved
  \/ ValidateOutput
  \/ VerifyL2Consistency

OrchestrationSpec == OrchestrationInit /\ [][OrchestrationNext]_vars

(***************************************************************************)
(* InMemoryQueue: the calls on one instance and the steps of the event     *)
(* loop.  A call of add() or process() runs to its end before anything     *)
(* else does; a handler's promise settles at any later moment; the rest of *)
(* a processNext runs at some moment after the promise it awaits settled.  *)
(***************************************************************************)
\* add(jobName, data): the job is pushed, processNext() is called.
Add ==
  /\ Len(adds) < MaxJobs
  /\ adds' = Append(adds, [id |-> Len(adds) + 1, processing |-> processing,
                            handler |-> handler])
  /\ Becomes(processNext([QueueState EXCEPT !.queue = Append(@, Job(Len(adds) + 1))]))
  /\ UNCHANGED <<config, call, result, pc, effectLog, frame>>

\* process(handler): the handler is stored, processNext() is called.
Process ==
  /\ \E h \in Handlers : Becomes(processNext([QueueState EXCEPT !.handler = h]))
  /\ UNCHANGED <<adds, config, call, result, pc, effectLog, frame>>

\* The promise a call of the handler returned resolves or rejects.
HandlerSettles ==
  /\ \E k \in 1..Len(handlerCalls), o \in {"resolved", "rejected"} :
        /\ handlerCalls[k].outcome = "pending"
        /\ handlerCalls' = [handlerCalls EXCEPT ![k].outcome = o]
  /\ UNCHANGED <<queue, processing, handler, suspended, adds>>
  /\ UNCHANGED <<config, call, result, pc, effectLog, frame>>

\* A processNext goes on after its await.
Resume ==
  /\ \E k \in suspended :
        /\ handlerCalls[k].outcome # "pending"
        /\ Becomes(resume(QueueState, k))
  /\ UNCHANGED <<adds, config, call, result, pc, effectLog, frame>>

QueueInit ==
  /\ config = [name |-> "attribution-tasks"]
  /\ call = [op |-> "InMemoryQueue"]
  /\ result = NoResult
  /\ pc = "ready"
  /\ effectLog = <<>>
  /\ frame = NoFrame
  /\ QueueIdle

QueueNext ==
  \/ Add
  \/ Process
  \/ HandlerSettles
  \/ Resume

QueueSpec == QueueInit /\ [][QueueNext]_vars

\* Every promise a handler returned settles, and the event loop runs every
\* continuation that is ready.
QueueLiveSpec ==
  QueueInit /\ [][QueueNext]_vars /\ WF_vars(HandlerSettles) /\ WF_vars(Resume)



(***************************************************************************)
(* Properties                                                              *)
(***************************************************************************)
Returned == pc # "ready" /\ result.status = "ok"

ReturnedFrom(op) == Returned /\ call.op = op

EffectsSum(r) == RAdd(RAdd(r.allocationEffect, r.selectionEffect), r.interactionEffect)

SectorTotal(r) ==
  RSum([i \in 1..Len(r.sectorAttribution) |-> r.sectorAttribution[i].totalEffect])

\* C1: for every call of calculateSinglePeriodAttribution on valid inputs
\* (contribution = weight * return for each position, benchmark.totalReturn =
\* the sum of weight * return over the constituents), the returned
\* allocationEffect + selectionEffect + interactionEffect equals the returned
\* activeReturn within 1e-6.
C1_EffectsSumToActiveReturn ==
  (/\ ReturnedFrom("calculateSinglePeriodAttribution")
   /\ ValidSinglePeriodInput(call.positions, call.benchmark))
  => Within(EffectsSum(result), result.activeReturn, TolDen)

\* A valid two-sector call with a non-zero active return and a non-zero
\* interaction effect has returned.
C1_Witness ==
  /\ ReturnedFrom("calculateSinglePeriodAttribution")
  /\ ValidSinglePeriodInput(call.positions, call.benchmark)
  /\ Len(call.positions) = 2
  /\ Len(result.sectorAttribution) >= 2
  /\ result.activeReturn # Zero
  /\ result.interactionEffect # Zero
  /\ result.allocationEffect # Zero
  /\ Within(EffectsSum(result), result.activeReturn, TolDen)

\* C2 as stated: for ALL single-period inputs (any positions, any benchmark
\* record) the sum of totalEffect over the returned buckets equals the
\* returned activeReturn within 1e-6.
C2_AnyInputSectorTotals ==
  ReturnedFrom("calculateSinglePeriodAttribution")
  => Within(SectorTotal(result), result.activeReturn, TolDen)

\* No bucket lost its return to the zero-weight guard: a bucket whose
\* portfolio (benchmark) weight is zero aggregated no portfolio (benchmark)
\* return.
NoReturnWithoutWeight(sectorAttribution) ==
  \A i \in 1..Len(sectorAttribution) :
    LET b == sectorAttribution[i]
    IN  /\ b.portfolioWeight = Zero => b.portfolioReturn = Zero
        /\ b.benchmarkWeight = Zero => b.benchmarkReturn = Zero

\* C2 as amended: the sum of totalEffect over the returned buckets equals the
\* returned activeReturn within 1e-6 whenever benchmark.totalReturn is the sum
\* of weight * return over the constituents and no sector has a zero weight
\* together with a non-zero aggregated return.
C2_SectorTotalsSumToActiveReturn ==
  (/\ ReturnedFrom("calculateSinglePeriodAttribution")
   /\ ConsistentBenchmark(call.benchmark)
   /\ NoReturnWithoutWeight(result.sectorAttribution))
  => Within(SectorTotal(result), result.activeReturn, TolDen)

\* A call whose position breaks contribution = weight * return, but whose
\* buckets still reconcile, has returned.
C2_Witness ==
  /\ ReturnedFrom("calculateSinglePeriodAttribution")
  /\ ConsistentBenchmark(call.benchmark)
  /\ NoReturnWithoutWeight(result.sectorAttribution)
  /\ \E i \in 1..Len(call.positions) : ~ValidPosition(call.positions[i])
  /\ Len(result.sectorAttribution) >= 2
  /\ result.activeReturn # Zero
  /\ Within(SectorTotal(result), result.activeReturn, TolDen)

PortfolioLabel(pos) ==
  IF call.op = "aggregateBySector"
  THEN (IF pos.ticker \in DOMAIN call.sectors THEN call.sectors[pos.ticker] ELSE "Unknown")
  ELSE (IF pos.sector = "" THEN "Unknown" ELSE pos.sector)

BenchmarkLabel(ticker) ==
  IF call.op = "aggregateBySector"
  THEN (IF ticker \in DOMAIN call.sectors THEN call.sectors[ticker] ELSE "Unknown")
  ELSE inferSector(ticker)

LabelsEncountered ==
  {PortfolioLabel(call.positions[i]) : i \in 1..Len(call.positions)}
  \cup {BenchmarkLabel(call.benchmark.weights[i].ticker) :
          i \in 1..Len(call.benchmark.weights)}

RiskOp == "RiskAttributionCalculator.calculateAttribution"

\* sum over the positions of weight_i * marginalContribution_i
WeightedMarginalSum(r) ==
  RSum([i \in 1..Len(r.positionContributions) |->
          RMul(r.positionContributions[i].weight,
               r.positionContributions[i].marginalContribution)])

PercentageSum(r) ==
  RSum([i \in 1..Len(r.positionContributions) |->
          r.positionContributions[i].percentageContribution])

\* C4: Euler identity.  For every result of
\* RiskAttributionCalculator.calculateAttribution with portfolioVolatility > 0,
\* the sum over the positions of weight_i * marginalContribution_i equals
\* portfolioVolatility and the sum of percentageContribution_i equals 1.
C4_EulerIdentity ==
  (ReturnedFrom(RiskOp) /\ RLt(Zero, result.portfolioVolatility))
  => /\ Within(WeightedMarginalSum(result), result.portfolioVolatility, TolDen)
     /\ Within(PercentageSum(result), One, TolDen)

\* The historical sample of portfolio returns the call works on.
Sample == PortfolioReturnSeries(call.positions, call.returns)

\* C5: for every non-empty historical return sample and every confidence
\* level in (0, 1), the returned portfolioCVaR is >= the returned
\* portfolioVaR, and the two are equal when all portfolio returns of the
\* sample are identical.
C5_CVaRAtLeastVaR ==
  (ReturnedFrom(RiskOp) /\ Sample # <<>>)
  => /\ RLe(result.portfolioVaR, result.portfolioCVaR)
     /\ (\A i \in 1..Len(Sample) : Sample[i] = Sample[1])
          => result.portfolioCVaR = result.portfolioVaR

\* A two-position call on a sample of three different returns has returned
\* with the VaR index beyond the worst return and CVaR strictly above VaR.
C5_Witness ==
  /\ ReturnedFrom(RiskOp)
  /\ Len(call.positions) = 2
  /\ Len(Sample) = 3
  /\ Sample[1] # Sample[2]
  /\ VarIndex(config.risk.confidenceLevel, Len(Sample)) >= 1
  /\ RLt(result.portfolioVaR, result.portfolioCVaR)
  /\ RLt(Zero, result.portfolioVolatility)

BrinsonMultiOp == "calculateMultiPeriodAttribution"

MultiPeriodOp == "MultiPeriodAttributionCalculator.calculateAttribution"

LinkedTotal(l) ==
  RAdd(RAdd(RAdd(l.linkedAllocationEffect, l.linkedSelectionEffect),
            l.linkedInteractionEffect),
       l.smoothingAdjustment)

\* C6: for each linking method (Carino, Menchero, GRAP) and every sequence of
\* periods, the linkedAttribution returned by calculateMultiPeriodAttribution
\* satisfies linkedAllocationEffect + linkedSelectionEffect +
\* linkedInteractionEffect + smoothingAdjustment = cumulativeActiveReturn
\* (chain-linked portfolio return minus chain-linked benchmark return) within
\* 1e-6.
C6_LinkedEffectsReconcile ==
  ReturnedFrom(BrinsonMultiOp)
  => Within(LinkedTotal(result.linkedAttribution), result.cumulativeActiveReturn,
            TolDen)

\* The product of 1 + R over the returns, taken from the first return on.
RECURSIVE ProductOfGrowth(_)
ProductOfGrowth(returns) ==
  IF returns = <<>> THEN One
  ELSE RMul(RAdd(One, Head(returns)), ProductOfGrowth(Tail(returns)))

\* The portfolio return of each period of the call: the sum of the
\* contributions of its positions.
PeriodPortfolioReturns ==
  [t \in 1..Len(call.periods) |->
     RSum([i \in 1..Len(call.periods[t].positions) |->
             call.periods[t].positions[i].contribution])]

\* C7: for every sequence of period returns R_1..R_n, chainLinkReturns returns
\* exactly the product of (1 + R_t) minus 1 (0 for the empty sequence), and the
\* cumulativeReturn of a multi-period result is this value computed over the
\* per-period portfolio returns.
C7_ChainLinking ==
  /\ ReturnedFrom("chainLinkReturns")
     => /\ result.value = RSub(ProductOfGrowth(call.returns), One)
        /\ call.returns = <<>> => result.value = Zero
  /\ (ReturnedFrom(BrinsonMultiOp) \/ ReturnedFrom(MultiPeriodOp))
     => result.cumulativeReturn = RSub(ProductOfGrowth(PeriodPortfolioReturns), One)

\* A multi-period call over two periods with different non-zero portfolio
\* returns has returned a compounded return that is not their sum.
C7_Witness ==
  /\ ReturnedFrom(BrinsonMultiOp)
  /\ Len(call.periods) = 2
  /\ PeriodPortfolioReturns[1] # Zero
  /\ PeriodPortfolioReturns[2] # Zero
  /\ PeriodPortfolioReturns[1] # PeriodPortfolioReturns[2]
  /\ result.cumulativeReturn # RSum(PeriodPortfolioReturns)
  /\ result.cumulativeReturn = RSub(ProductOfGrowth(PeriodPortfolioReturns), One)

FactorOp == "FactorAttributionCalculator.calculateAttribution"

\* C9: for every result of FactorAttributionCalculator.calculateAttribution,
\* factorReturn + specificReturn equals totalReturn within 1e-6, that is,
\* specificReturn is totalReturn minus the sum of the factor contributions.
C9_FactorPlusSpecific ==
  ReturnedFrom(FactorOp)
  => Within(RAdd(result.factorReturn, result.specificReturn), result.totalReturn,
            TolDen)

\* The numeric fields of a single-period result.
SinglePeriodNumbers(r) ==
  {r.portfolioReturn, r.benchmarkReturn, r.activeReturn, r.allocationEffect,
   r.selectionEffect, r.interactionEffect, r.battingAverage, r.upsideCapture,
   r.downsideCapture, r.treynorRatio, r.jensenAlpha,
   r.attributionQuality.totalResidual, r.attributionQuality.completeness,
   r.attributionQuality.explanatoryPower}
  \cup UNION {{b.portfolioWeight, b.benchmarkWeight, b.portfolioReturn,
               b.benchmarkReturn, b.allocationEffect, b.selectionEffect,
               b.interactionEffect, b.totalEffect} :
                b \in {r.sectorAttribution[i] : i \in 1..Len(r.sectorAttribution)}}

\* C11: every numeric field of the result of calculateSinglePeriodAttribution
\* is finite (neither NaN nor an infinity) for finite inputs, zero positions,
\* a benchmark without constituent returns and zero-weight positions included.
C11_SinglePeriodFinite ==
  ReturnedFrom("calculateSinglePeriodAttribution")
  => \A x \in SinglePeriodNumbers(result) : IsFinite(x)


\* Every number in the result of the risk calculator.
RiskNumbers(r) ==
  {r.portfolioVolatility, r.portfolioVaR, r.portfolioCVaR,
   r.benchmarkVolatility, r.benchmarkVaR, r.benchmarkCVaR,
   r.activeRisk, r.activeShare,
   r.tailRiskAttribution.varAmount, r.tailRiskAttribution.cvarAmount}
  \cup UNION {{c.weight, c.marginalContribution, c.percentageContribution,
               c.riskAdjustedReturn, c.diversificationBenefit} :
                c \in {r.positionContributions[i] :
                        i \in 1..Len(r.positionContributions)}}
  \cup UNION {{c.varContribution, c.cvarContribution, c.tailCorrelation,
               c.conditionalContribution} :
                c \in {r.tailRiskAttribution.tailRiskContribution[i] :
                        i \in 1..Len(r.tailRiskAttribution.tailRiskContribution)}}

\* C12: every numeric field of a result RiskAttributionCalculator
\* .calculateAttribution returns is a finite number, also for degenerate
\* inputs (constant series, no positions, no or one observation).
C12_RiskFinite ==
  ReturnedFrom(RiskOp) => \A x \in RiskNumbers(result) : IsFinite(x)



ValidateOp == "validateBrinsonAttribution"

\* The three effects of the attribution the call validates, summed.
EffectsOf(a) ==
  RAdd(RAdd(a.allocationEffect, a.selectionEffect), a.interactionEffect)

\* C13: validateBrinsonAttribution returns (it does not throw); when the
\* three effects differ from activeReturn by more than 1e-6 it returns
\* isValid = false with an error that contains 'Brinson effects sum'; and
\* isValid is true exactly when the error list is empty.
C13_InconsistencyReported ==
  (pc # "ready" /\ call.op = ValidateOp)
  => /\ result.status = "ok"
     /\ result.isValid <=> Len(result.errors) = 0
     /\ Exceeds(EffectsOf(call.attribution), call.attribution.activeReturn)
        => /\ ~result.isValid
           /\ \E i \in 1..Len(result.errors) :
                 includes(result.errors[i], "Brinson effects sum")

\* C13 witness: the test's invalid attribution (effects 0.01 + 0.01 + 0.01
\* against activeReturn 0.02, matching period) was validated and rejected.
C13_Witness ==
  /\ ReturnedFrom(ValidateOp)
  /\ call.attribution.period # Undefined
  /\ call.attribution.activeReturn = Q(1, 50)
  /\ EffectsOf(call.attribution) = Q(3, 100)
  /\ ~result.isValid



\* The returns of the attribution's period are its top-level returns.
PeriodMatches(a) ==
  /\ a.period # Undefined
  /\ a.period.portfolioReturn = a.portfolioReturn
  /\ a.period.benchmarkReturn = a.benchmarkReturn

\* C14: validateBrinsonAttribution returns isValid = true and no error for
\* an attribution whose period returns equal its top-level returns and whose
\* three effects sum to activeReturn within 1e-6, whatever its list of
\* sector buckets (an empty list with a non-zero activeReturn included).
C14_ConsistentIsValid ==
  (/\ ReturnedFrom(ValidateOp)
   /\ PeriodMatches(call.attribution)
   /\ Within(EffectsOf(call.attribution), call.attribution.activeReturn, TolDen))
  => result.isValid /\ result.errors = <<>>


\* The observations of the weight-weighted portfolio return in the order of
\* the history: as many as the first position's series has, each the sum of
\* weight * return over the positions whose series reaches that far.
Observations ==
  LET n == IF call.positions = <<>> THEN 0
           ELSE Len(SeriesOf(call.returns, call.positions[1].ticker))
  IN  [t \in 1..n |->
         RSum([k \in 1..Len(call.positions) |->
                 IF t <= Len(SeriesOf(call.returns, call.positions[k].ticker))
                 THEN RMul(call.positions[k].weight,
                           SeriesOf(call.returns, call.positions[k].ticker)[t])
                 ELSE Zero])]

\* How many observations are below v, and how many are not above it.
CountBelow(v) == Cardinality({t \in 1..Len(Observations) : RLt(Observations[t], v)})

CountUpTo(v) == Cardinality({t \in 1..Len(Observations) : RLe(Observations[t], v)})

SumBelow(v) ==
  RSum(SelectSeq(Observations, LAMBDA x : RLt(x, v)))

\* floor((1 - c) * N) for c = p / q, in integers
TailIndex == 
  ((config.risk.confidenceLevel[2] - config.risk.confidenceLevel[1])
   * Len(Observations)) \div config.risk.confidenceLevel[2]

\* C15: with N >= 1 observations of the weighted portfolio return and
\* k = floor((1 - c) * N), portfolioVaR is the negated observation v that
\* stands at index k when the observations are sorted ascending (at most k
\* observations are below v, more than k are not above it), and
\* portfolioCVaR is the negated mean of the k + 1 smallest observations;
\* for 20 observations and c = 0.95 that index is 1.
C15_HistoricalVaR ==
  (ReturnedFrom(RiskOp) /\ Len(Observations) >= 1)
  => \E t \in 1..Len(Observations) :
        LET v == Observations[t]
        IN  /\ CountBelow(v) <= TailIndex /\ TailIndex < CountUpTo(v)
            /\ result.portfolioVaR = RNeg(v)
            /\ result.portfolioCVaR =
                 RNeg(RDiv(RAdd(SumBelow(v),
                                RMul(Q(TailIndex + 1 - CountBelow(v), 1), v)),
                           Q(TailIndex + 1, 1)))
            /\ (Len(Observations) = 20 /\ config.risk.confidenceLevel = Q(19, 20))
                 => CountBelow(v) <= 1 /\ 1 < CountUpTo(v)

\* C15 witness: twenty observations at c = 0.95; the second smallest is -3%,
\* the smallest -5%, so VaR is 3% and CVaR 4%.
C15_Witness ==
  /\ ReturnedFrom(RiskOp)
  /\ Len(Observations) = 20
  /\ config.risk.confidenceLevel = Q(19, 20)
  /\ result.portfolioVaR = Q(3, 100)
  /\ result.portfolioCVaR = Q(1, 25)



\* The history passed to the risk calculator has series of different lengths.
UnequalSeries ==
  /\ call.op = RiskOp
  /\ \E i, j \in 1..Len(call.returns) :
        Len(call.returns[i].series) # Len(call.returns[j].series)

\* A position of the call has a weight or a return that is NaN or infinite.
NonFiniteInput ==
  /\ "positions" \in DOMAIN call
  /\ \E i \in 1..Len(call.positions) :
        ~IsFinite(call.positions[i].weight) \/ ~IsFinite(call.positions[i].return)

\* C16: a call of the risk calculator with return series of unequal lengths,
\* and a call of a calculator with a non-finite weight or return, ends in an
\* error surfaced to the caller, never in a result.
C16_FailFast ==
  (pc # "ready" /\ (UnequalSeries \/ NonFiniteInput)) => result.status = "threw"



HandleOp == "Dispatcher.handleRequest"

\* The query of the request contains a forbidden keyword.
UnsafeQuery ==
  \E k \in 1..Len(FORBIDDEN_KEYWORDS) : TextIncludes(call.query, FORBIDDEN_KEYWORDS[k])

\* '敏感词': sensitive word
SensitiveWord == <<"U+654F", "U+611F", "U+8BCD">>

\* C17: for a query that contains a forbidden keyword handleRequest makes no
\* call on any collaborator at any time (no holdings or prices fetched, no
\* attribution calculated, no LLMService.generate), and what it returns,
\* in its first step, is the sensitive-word message.
C17_UnsafeInputBlocked ==
  (call.op = HandleOp /\ UnsafeQuery)
  => /\ effectLog = <<>>
     /\ pc \in {"ready", "returned"}
     /\ pc = "returned"
        => /\ result.status = "ok"
           /\ TextIncludes(result.value, SensitiveWord)
           /\ \E k \in 1..Len(FORBIDDEN_KEYWORDS) :
                 result.value = SensitiveWordPrefix \o FORBIDDEN_KEYWORDS[k]

\* C17 witness: a request whose query contains the second keyword (and not
\* the first) has returned.
C17_Witness ==
  /\ call.op = HandleOp
  /\ TextIncludes(call.query, FORBIDDEN_KEYWORDS[2])
  /\ ~TextIncludes(call.query, FORBIDDEN_KEYWORDS[1])
  /\ pc = "returned"
  /\ result.value = SensitiveWordPrefix \o FORBIDDEN_KEYWORDS[2]

ValidateOutputOp == "Guardrails.validateOutput"

\* The text carries both required disclaimers.
CarriesDisclaimers(text) ==
  \A i \in 1..Len(requiredDisclaimers) : TextIncludes(text, requiredDisclaimers[i])

\* C18: what Guardrails.validateOutput returns contains both '风险提示' and
\* '仅供参考'; it is the text itself when the text carries both, and the text
\* with the default disclaimer appended otherwise.
C18_OutputCarriesDisclaimers ==
  ReturnedFrom(ValidateOutputOp)
  => /\ CarriesDisclaimers(result.value)
     /\ result.value = IF CarriesDisclaimers(call.responseText)
                       THEN call.responseText
                       ELSE call.responseText \o DefaultDisclaimer

VerifyOp == "Guardrails.verifyL2Consistency"

\* The total the response states is not a match for the expected total:
\* it is not within 5% of it plus 0.01.
WrongTotal ==
  ~RLt(RAbs(RSub(call.stated.total, call.expectedPnl)),
       RAdd(RAbs(RMul(call.expectedPnl, Tolerance)), Q(1, 100)))

\* C19: when the total profit and loss the response states differs from
\* expectedPnl by more than the tolerance, verifyL2Consistency returns
\* isConsistent = false and an issue that names the total profit and loss,
\* whatever other numbers the response contains.
C19_WrongTotalDetected ==
  (ReturnedFrom(VerifyOp) /\ WrongTotal)
  => /\ ~result.isConsistent
     /\ \E i \in 1..Len(result.issues) : TextIncludes(result.issues[i], TotalPnlWords)

\* A returning calculateMultiPeriodAttribution of a calculator configured with
\* the GRAP linking method.
GrapLinked == ReturnedFrom(BrinsonMultiOp) /\ config.brinson.linkingMethod = "GRAP"

\* The raw effects of the periods of the result, summed over the periods and
\* over the three kinds of effect.
RawEffectSum ==
  RSum([t \in 1..Len(result.periods) |->
          RAdd(RAdd(result.periods[t].allocationEffect,
                    result.periods[t].selectionEffect),
               result.periods[t].interactionEffect)])

\* The scalar of the GRAP method: cumulativeActiveReturn over the sum of the
\* raw effects, and 1 when that sum is 0.
GrapBeta ==
  IF RawEffectSum = Zero THEN One
  ELSE RDiv(result.cumulativeActiveReturn, RawEffectSum)

\* C20: GRAP linking scales every raw per-period effect by the single scalar
\* beta = cumulativeActiveReturn / sum of all raw effects (1 when that sum is
\* 0); for every input smoothingAdjustment equals cumulativeActiveReturn minus
\* the sum of the three linked effects, so the four terms add up to
\* cumulativeActiveReturn.
C20_GrapLinking ==
  GrapLinked
  => LET l == result.linkedAttribution
         n == Len(result.periods)
     IN  /\ ~RNe(l.linkedAllocationEffect,
                 RSum([t \in 1..n |-> RMul(GrapBeta, result.periods[t].allocationEffect)]))
         /\ ~RNe(l.linkedSelectionEffect,
                 RSum([t \in 1..n |-> RMul(GrapBeta, result.periods[t].selectionEffect)]))
         /\ ~RNe(l.linkedInteractionEffect,
                 RSum([t \in 1..n |-> RMul(GrapBeta, result.periods[t].interactionEffect)]))
         /\ ~RNe(l.smoothingAdjustment,
                 RSub(result.cumulativeActiveReturn,
                      RAdd(RAdd(l.linkedAllocationEffect, l.linkedSelectionEffect),
                           l.linkedInteractionEffect)))
         /\ ~RNe(LinkedTotal(l), result.cumulativeActiveReturn)

\* C20, its case: two periods linked with GRAP whose raw effects sum to
\* something other than 0 and other than the cumulative active return, so
\* that the scalar is not 1 and the linked effects differ from the raw sums.
C20_Witness ==
  /\ GrapLinked
  /\ Len(result.periods) = 2
  /\ RawEffectSum # Zero
  /\ GrapBeta # One
  /\ result.linkedAttribution.linkedSelectionEffect # Zero
  /\ result.linkedAttribution.linkedSelectionEffect
       = RMul(GrapBeta, RSum([t \in 1..2 |-> result.periods[t].selectionEffect]))
  /\ LinkedTotal(result.linkedAttribution) = result.cumulativeActiveReturn

\* C20, the fallback: the raw effects sum to 0 while some effect is not 0; the
\* scalar is 1 and the linked effects are the raw sums.
C20_ZeroSumReached ==
  /\ GrapLinked
  /\ RawEffectSum = Zero
  /\ \E t \in 1..Len(result.periods) : result.periods[t].allocationEffect # Zero
  /\ result.linkedAttribution.linkedAllocationEffect
       = RSum([t \in 1..Len(result.periods) |-> result.periods[t].allocationEffect])

ConsistencyOp == "calculateConsistency"

\* Every effect of the series is a gain, or every effect is a loss.
SameSign(series) ==
  \/ \A t \in 1..Len(series) : IsPositive(series[t])
  \/ \A t \in 1..Len(series) : IsNegative(series[t])

\* Half of the effects of the series are positive and half are not.
MaximallyMixed(series) ==
  Len(series) > 0 /\ 2 * CountWhere(series, IsPositive) = Len(series)

\* C21: the drift consistency score of an effect series is 1 when every effect
\* of the series has the same sign, 0 when the series is maximally mixed (half
\* positive, half not), and always lies in [0, 1].
C21_ConsistencyScore ==
  ReturnedFrom(ConsistencyOp)
  => /\ RLe(Zero, result.value) /\ RLe(result.value, One)
     /\ SameSign(call.effects) => result.value = One
     /\ MaximallyMixed(call.effects) => result.value = Zero

RegimeOp == "detectRegimeChanges"

\* The absolute jump of an effect from period i - 1 to period i of the call.
AllocationJump(i) ==
  RAbs(RSub(call.periods[i].allocationEffect, call.periods[i - 1].allocationEffect))

SelectionJump(i) ==
  RAbs(RSub(call.periods[i].selectionEffect, call.periods[i - 1].selectionEffect))

\* The periods whose allocation or selection effect jumped from the period
\* before by more than the threshold.
JumpPeriods ==
  {i \in 2..Len(call.periods) :
     \/ RLt(config.multiPeriod.regimeChangeThreshold, AllocationJump(i))
     \/ RLt(config.multiPeriod.regimeChangeThreshold, SelectionJump(i))}

\* C22: for each consecutive pair of periods (i - 1, i) a regime change dated
\* with period i is recorded if and only if the absolute change of the
\* allocation effect or of the selection effect exceeds regimeChangeThreshold;
\* the records appear in period order, at most one per pair, and each names as
\* cause the driver with the larger absolute jump.
C22_RegimeChanges ==
  ReturnedFrom(RegimeOp)
  => LET changes == result.value
     IN  /\ {changes[k].date : k \in 1..Len(changes)} = JumpPeriods
         /\ \A k \in 1..Len(changes) - 1 : changes[k].date < changes[k + 1].date
         /\ \A k \in 1..Len(changes) :
               /\ RLt(SelectionJump(changes[k].date), AllocationJump(changes[k].date))
                  => changes[k].impactOnAttribution = "Allocation-driven regime change"
               /\ RLt(AllocationJump(changes[k].date), SelectionJump(changes[k].date))
                  => changes[k].impactOnAttribution = "Selection-driven regime change"

\* C22, its case: three periods with a jump at each pair, the first driven by
\* allocation and the second by selection.
C22_Witness ==
  /\ ReturnedFrom(RegimeOp)
  /\ Len(call.periods) = 3
  /\ JumpPeriods = {2, 3}
  /\ Len(result.value) = 2
  /\ result.value[1].date = 2
  /\ result.value[1].impactOnAttribution = "Allocation-driven regime change"
  /\ result.value[2].date = 3
  /\ result.value[2].impactOnAttribution = "Selection-driven regime change"

\* C22, a pair without a record: three periods of which only the last jumped,
\* the first pair moving by exactly the threshold.
C22_NoRecordReached ==
  /\ ReturnedFrom(RegimeOp)
  /\ Len(call.periods) = 3
  /\ AllocationJump(2) = config.multiPeriod.regimeChangeThreshold
  /\ JumpPeriods = {3}
  /\ Len(result.value) = 1

SinglePeriodOp == "calculateSinglePeriodAttribution"

\* C23: the attribution-quality self-check of calculateSinglePeriodAttribution
\* reports completeness and accuracy scores that lie in [0, 1] and a
\* totalResidual equal to activeReturn - (allocationEffect + selectionEffect +
\* interactionEffect); a non-zero residual is never reported with
\* completeness 1.
C23_QualitySelfCheck ==
  ReturnedFrom(SinglePeriodOp)
  => LET q == result.attributionQuality
     IN  /\ RLe(Zero, q.completeness) /\ RLe(q.completeness, One)
         /\ RLe(Zero, q.accuracy) /\ RLe(q.accuracy, One)
         /\ ~RNe(q.totalResidual,
                 RSub(result.activeReturn,
                      RAdd(RAdd(result.allocationEffect, result.selectionEffect),
                           result.interactionEffect)))
         /\ RNe(q.totalResidual, Zero) => RNe(q.completeness, One)

\* A list or the entries of a Map, last first.
LastFirst(s) == [i \in 1..Len(s) |-> s[Len(s) + 1 - i]]

\* The call of the state with its positions, the keys of its historical
\* returns or the keys of its benchmark weights in the opposite order.
Reordered ==
  {[call EXCEPT !.positions = LastFirst(@)],
   [call EXCEPT !.returns = LastFirst(@)],
   [call EXCEPT !.benchmark.weights = LastFirst(@)]}

\* The volatilities, the active risk and the contributions by ticker of a
\* risk result; a call that threw has none.
RiskFigures(r) ==
  IF r.status # "ok" THEN <<"threw">>
  ELSE <<r.portfolioVolatility, r.benchmarkVolatility, r.activeRisk,
         {r.positionContributions[i] : i \in 1..Len(r.positionContributions)}>>

\* C24: iteration order never affects risk results.
\* RiskAttributionCalculator.calculateAttribution returns the same
\* portfolioVolatility, benchmarkVolatility, activeRisk and per-ticker
\* contributions whatever the order of the positions list and whatever the key
\* order of the historicalReturns and benchmark weight maps.
C24_OrderIndependent ==
  ReturnedFrom("RiskAttributionCalculator.calculateAttribution")
  => \A c \in Reordered :
        RiskFigures(RiskCalculateAttribution(config.risk, c.positions, c.benchmark,
                                             c.returns))
          = RiskFigures(result)

\* C25: in every result of calculateMultiPeriodAttribution,
\* linkedAttribution.residual equals the result's own cumulativeActiveReturn
\* (cumulativeReturn - cumulativeBenchmarkReturn) minus the sum of the three
\* linked effects.
C25_ResidualOfCumulativeActiveReturn ==
  ReturnedFrom(BrinsonMultiOp)
  => LET l == result.linkedAttribution
     IN  /\ ~RNe(result.cumulativeActiveReturn,
                 RSub(result.cumulativeReturn, result.cumulativeBenchmarkReturn))
         /\ ~RNe(l.residual,
                 RSub(result.cumulativeActiveReturn,
                      RAdd(RAdd(l.linkedAllocationEffect, l.linkedSelectionEffect),
                           l.linkedInteractionEffect)))

\* C26: in calculateSinglePeriodAttribution a ticker held in the portfolio and
\* present in the benchmark is assigned to the same sector bucket on both
\* sides: one bucket of the result carries the label the position is filed
\* under and the label the benchmark constituent is filed under.
C26_SameBucketOnBothSides ==
  ReturnedFrom(SinglePeriodOp)
  => \A i \in 1..Len(call.positions), j \in 1..Len(call.benchmark.weights) :
        call.positions[i].ticker = call.benchmark.weights[j].ticker
        => \E k \in 1..Len(result.sectorAttribution) :
              /\ result.sectorAttribution[k].sector = SectorOf(call.positions[i])
              /\ result.sectorAttribution[k].sector
                   = inferSector(call.benchmark.weights[j].ticker)

\* The calls of the handler that are in progress: the promise the call
\* returned has not settled yet.
InProgress == {k \in 1..Len(handlerCalls) : handlerCalls[k].outcome = "pending"}

\* C27: InMemoryQueue, under every interleaving of add() calls, process()
\* calls and handler completions, has at most one handler invocation in
\* progress at any time.
C27_OneInvocationAtATime ==
  /\ Cardinality(InProgress) <= 1
  /\ Cardinality(suspended) <= 1
  /\ InProgress # {} => processing

\* C27, its case: a job is being handled while two more jobs wait, one of
\* them added during the handling.
C27_Witness ==
  /\ Cardinality(InProgress) = 1
  /\ Len(queue) = 2
  /\ adds[Len(adds)].processing
  /\ adds[Len(adds)].handler = "async"

\* C28: InMemoryQueue passes the jobs to the handler in the order they were
\* added, each added job at most once, also the jobs added before a handler
\* is registered and the jobs added while another job is being handled: the
\* jobs passed so far are the first jobs added, in the order of their adds,
\* and the queue holds the others in that order.
C28_FifoAtMostOnce ==
  /\ \A k \in 1..Len(handlerCalls) : handlerCalls[k].job = Job(k)
  /\ Len(handlerCalls) + Len(queue) = Len(adds)
  /\ \A i \in 1..Len(queue) : queue[i] = Job(Len(handlerCalls) + i)

\* C28, its case: three jobs were passed to the handler; the first two were
\* added before any handler was registered, the third while another job was
\* being handled.
C28_Witness ==
  /\ Len(handlerCalls) = 3
  /\ adds[1].handler = NoHandler
  /\ adds[2].handler = NoHandler
  /\ adds[3].processing
  /\ \A k \in 1..3 : handlerCalls[k].job = Job(k)

\* Job j has been passed to the handler.
Handled(j) == \E k \in 1..Len(handlerCalls) : handlerCalls[k].job = Job(j)

\* C29: once a handler is registered and every handler invocation settles,
\* every added job is eventually handled and the queue returns to empty with
\* processing = false, also behind a handler invocation that rejects or
\* throws.
C29_EveryJobHandled ==
  /\ \A j \in 1..MaxJobs :
        (Len(adds) >= j /\ handler # NoHandler) ~> Handled(j)
  /\ (handler # NoHandler) ~> (queue = <<>> /\ ~processing /\ suspended = {})

\* C29, its case: the handler rejected the first job and the two jobs behind
\* it were handled; the queue is empty and idle again.
C29_Witness ==
  /\ Len(handlerCalls) = 3
  /\ handlerCalls[1].outcome = "rejected"
  /\ handlerCalls[2].outcome = "resolved"
  /\ handlerCalls[3].outcome \in {"resolved", "rejected"}
  /\ adds[2].processing
  /\ queue = <<>>
  /\ ~processing

\* C29, the other failure: a handler that throws has been passed three jobs
\* added before it was registered; the queue is empty and idle again.
C29_ThrowsReached ==
  /\ Len(handlerCalls) = 3
  /\ \A k \in 1..3 : handlerCalls[k].outcome = "threw"
  /\ queue = <<>>
  /\ ~processing

GenerateCalled ==
  \E i \in 1..Len(effectLog) : effectLog[i] = Effect("LLMService.generate", "")

ValidatedOutputs ==
  {validateOutput(rawResponse) : rawResponse \in LlmResponses}

\* C30: every string that Dispatcher.handleRequest returns for a query that
\* passed the input guardrail has gone through Guardrails.validateOutput after
\* the call of the language model, and so carries a risk disclaimer, also on
\* the path where an attribution calculation throws.
C30_EveryReturnValidated ==
  (call.op = HandleOp /\ ~UnsafeQuery /\ pc = "returned")
    => /\ GenerateCalled
       /\ \E validated \in ValidatedOutputs :
             result.value \in {validated, validated \o SystemNotice}
       /\ \E i \in 1..Len(requiredDisclaimers) :
             TextIncludes(result.value, requiredDisclaimers[i])

\* C30, the path that holds: the Brinson calculation succeeded, the language
\* model was called and the returned string went through validateOutput.
C30_ValidatedReached ==
  /\ call.op = HandleOp
  /\ ~UnsafeQuery
  /\ pc = "returned"
  /\ GenerateCalled
  /\ \E i \in 1..Len(requiredDisclaimers) :
        TextIncludes(result.value, requiredDisclaimers[i])

====
